---- MODULE Spec2Model ----
(***************************************************************************)
(* certificate-operator: the reconciliation of one Certificate resource.   *)
(*                                                                         *)
(* Two orchestrations exist in the repository and both are modelled:       *)
(*   - CertificateManager (ProcessCertificate / Finalize), which gates     *)
(*     distribution on the SHA-256 hash of the certificate bytes and calls *)
(*     the cloudflare and aws drivers;                                     *)
(*         specification Spec, and SpecOwner with an owner editing Spec    *)
(*   - CertificateReconciler.Reconcile, which owns the finalizer, persists *)
(*     Status and gates distribution on the Uploaded flags;                *)
(*         specification SpecCtrl, and SpecCtrlFair for teardown under     *)
(*         fair scheduling                                                 *)
(* SpecAll is a resource driven by either of the two; SpecPending is        *)
(* CertificateManager with the readiness of the issuance objects made      *)
(* visible; SpecDriver calls the cloudflare and aws drivers directly;      *)
(* SpecIssuance calls the cert-manager driver directly; SpecTeardown is a  *)
(* resource another party holds a finalizer on; SpecPair is two resources  *)
(* of one namespace; SpecApi is a resource created and updated through the *)
(* REST API's CertificateHandler; SpecDefaults is a resource whose Spec    *)
(* leaves the issuance settings empty or names them; SpecConverge is       *)
(* CertificateManager under fair scheduling; SpecRecords follows the       *)
(* certificate records on the cloud targets; SpecServer is StartAPIServer, *)
(* the HTTP server of the REST API and its shutdown.                       *)
(* One pass (one call of ProcessCertificate, Finalize or Reconcile) is one *)
(* action: passes for one resource key are serialized by the work queue.   *)
(* The calls a pass makes are recorded, in order, in `calls`.              *)
(***************************************************************************)
EXTENDS Integers, Sequences, FiniteSets, TLC

VARIABLES
    cert,       \* the Certificate resource: Spec, Status, finalizers, deletion timestamp
    tls,        \* the key-material slot <Name>-tls in the object store
    provider,   \* availability of each cloud target (credentials, backend API)
    calls,      \* the calls made by the most recent pass, in order
    result,     \* what the most recent pass returned
    before,     \* history: cert.Status when the most recent pass started
    after,      \* history: Status of the pass's own copy of the resource when
                \* the most recent pass returned
    streak,     \* history: "none", "first" or "again": the passes run since the
                \* environment last moved
    succeeded,  \* history: the targets an Upload call has ever succeeded on
    orchestration,  \* "manager" or "controller": which of the two drives the
                    \* resource; "driver" when the cloud drivers are called
                    \* directly, "issuance" when the cert-manager driver is,
                    \* "server" when only the REST API's server runs
    issuers,    \* the controller owner of each Issuer object of the namespace
                \* that a second Certificate resource could also name; recorded
                \* only where two resources share the namespace (SpecPair)
    records,    \* the certificate records on each cloud target that the
                \* passes created and have not deleted; followed only where
                \* the backends are looked at (SpecRecords)
    server      \* the REST API's HTTP server and the errgroup StartAPIServer
                \* runs it in; started only in SpecServer

vars == <<cert, tls, provider, calls, result, before, after, streak, succeeded,
          orchestration, issuers, records, server>>

(***************************************************************************)
(* Bounds                                                                  *)
(***************************************************************************)
MaxCerts == 2       \* distinct certificate byte strings the issuer produces
MaxIds == 2         \* distinct identifiers a cloud target hands out
MaxTime == 2        \* distinct readings of the wall clock

(***************************************************************************)
(* Data model                                                              *)
(***************************************************************************)
Name == "example"
Targets == {"cloudflare", "aws"}

\* A Go pointer (*bool, *metav1.Time, *AWSConfig) is a sequence: <<>> is nil.
Nil == <<>>
Ptr(v) == <<v>>
Deref(p) == p[1]

\* []byte values: the empty slice and the certificates the issuer produces.
NoBytes == <<>>
Certs == {<<i>> : i \in 1..MaxCerts}
KeyBytes == <<7>>

\* Status of a resource nothing has been done for (all zero values).
ZeroStatus ==
    [IssuerRef |-> "", CertificateRef |-> "",
     CloudflareUploaded |-> FALSE, AWSUploaded |-> FALSE,
     AWSCertificateARN |-> "", CloudflareCertificateID |-> "",
     LastUploadedCertHash |-> "", LastUploadedTime |-> Nil]

\* The Issuer objects of the namespace two Certificate resources can both
\* name: the default Issuer of each and one named in Spec.IssuerName.  An
\* Issuer is recorded by its controller owner reference: "" while it does not
\* exist, else the name of the Certificate that controls it.
Peer == "other"
IssuerNames == {Name \o "-issuer", Peer \o "-issuer", "shared-issuer"}
NoIssuers == [n \in IssuerNames |-> ""]

\* issuerName := cert.Spec.IssuerName, cert.Name + "-issuer" when empty
IssuerNameOf(name, spec) ==
    IF spec.IssuerName = "" THEN name \o "-issuer" ELSE spec.IssuerName

\* SHA-256 then hex: a collision-resistant digest is modelled as an injective
\* map from byte strings to non-empty strings (a hex digest is never "").
calculateCertHash(bytes) == "sha256:" \o ToString(bytes)

\* One recorded call: the operation, the target (or store object) it went to,
\* the identifier passed in, the identifier returned, and whether it succeeded.
Ev(op, target, id, out, ok) ==
    [op |-> op, target |-> target, id |-> id, out |-> out, ok |-> ok]

\* The calls of a pass that match op/target.
CallsOf(cs, op, target) ==
    {i \in 1..Len(cs) : cs[i].op = op /\ cs[i].target = target}

\* The records on the cloud targets: on[t] is the set of identifiers of the
\* records of target t; tracked is whether they are followed at all.
NoRecords == [tracked |-> TRUE, on |-> [t \in Targets |-> {}]]
Untracked == [tracked |-> FALSE, on |-> [t \in Targets |-> {}]]

\* StartAPIServer's server and errgroup before StartAPIServer is called:
\* ctx is the context of the caller and gCtx the one errgroup.WithContext
\* derives from it ("live" or "done"); listen and shutdown are where the two
\* goroutines of the group stand; inShutdown is the flag Shutdown sets on
\* the server; conns counts the connections a request is being served on
\* and idle those kept alive between two requests;
\* err is the first error a goroutine of the group returned ("" for none);
\* returned is what StartAPIServer returned ("running" before it returns).
NoServer ==
    [ctx |-> "live", gCtx |-> "live", listen |-> "idle", shutdown |-> "idle",
     inShutdown |-> FALSE, conns |-> 0, idle |-> 0, err |-> "",
     returned |-> "running"]

\* The records after the backend calls cs were made in this order: CreateSSL
\* and ImportCertificate that succeed leave a record under the identifier
\* they return, DeleteSSL and DeleteCertificate that succeed remove the
\* record of the identifier they are given.
RECURSIVE Track(_, _)
Track(recs, cs) ==
    IF ~recs.tracked \/ cs = <<>> THEN recs
    ELSE LET c == Head(cs)
             next ==
                IF ~c.ok THEN recs
                ELSE IF c.op \in {"CreateSSL", "ImportCertificate"}
                  THEN [recs EXCEPT !.on[c.target] = @ \cup {c.out}]
                ELSE IF c.op \in {"DeleteSSL", "DeleteCertificate"}
                  THEN [recs EXCEPT !.on[c.target] = @ \ {c.id}]
                ELSE recs
         IN  Track(next, Tail(cs))

\* Variant of NewControllerRef: an owner reference that is not a controller's.
NewOwnerRef(name) ==
    [Kind |-> "Certificate", Name |-> name, Controller |-> FALSE]

\* metav1.NewControllerRef / ctrl.SetControllerReference: the owner reference
\* that names the Certificate resource as the controller of an object.
NewControllerRef(name) ==
    [Kind |-> "Certificate", Name |-> name, Controller |-> TRUE]

\* cmmeta.ObjectReference of a Certificate request's IssuerRef; none for an
\* object that is no request.
ObjectReference(name, kind) == [Name |-> name, Kind |-> kind]
NoReference == ObjectReference("", "")

\* clusterIssuerName := cert.Spec.ClusterIssuerName, "letsencrypt-prod" when
\* empty
ClusterIssuerNameOf(spec) ==
    IF spec.ClusterIssuerName = "" THEN "letsencrypt-prod"
    ELSE spec.ClusterIssuerName

\* ingressClass := cert.Spec.IngressClassName, "nginx" when empty
IngressClassOf(spec) ==
    IF spec.IngressClassName = "" THEN "nginx" ELSE spec.IngressClassName

\* A recorded CreateOrUpdate of an issuance object: beside the call, what
\* its mutate function sets on the object: the owner references, the
\* IssuerRef of a Certificate request, the ingress class of an Issuer's
\* HTTP01 solver.
Upsert(ev, owners, issuerRef, class) ==
    [OwnerReferences |-> owners, IssuerRef |-> issuerRef, Class |-> class] @@ ev

\* types.CertSpec as ProcessCertificate fills it in.
CertSpec(name, spec) ==
    [Name |-> name \o "-cert", Domain |-> spec.Domain,
     ClusterIssuerName |-> ClusterIssuerNameOf(spec),
     SecretName |-> name \o "-tls",
     OwnerReferences |-> <<NewControllerRef(name)>>]

\* kubernetes.Driver.EnsureCertificate: CreateOrUpdate of the Certificate
\* request named certSpec.Name.  The owner references are set when any are
\* given; the ClusterIssuer is letsencrypt-prod when none is named.
EnsureCertificate(certSpec, ok) ==
    LET clusterIssuerName == IF certSpec.ClusterIssuerName = ""
                               THEN "letsencrypt-prod"
                               ELSE certSpec.ClusterIssuerName
    IN  Upsert(Ev("EnsureCertificate", certSpec.Name, "",
                  IF ok THEN certSpec.Name ELSE "", ok),
               IF Len(certSpec.OwnerReferences) > 0
                 THEN certSpec.OwnerReferences ELSE <<>>,
               ObjectReference(clusterIssuerName, "ClusterIssuer"), "")

\* Reconcile, "1. Define Issuer": CreateOrUpdate of the Issuer.
upsertIssuer(name, spec, ok) ==
    Upsert(Ev("CreateOrUpdate", IssuerNameOf(name, spec), "", "", ok),
           <<NewControllerRef(name)>>, NoReference, IngressClassOf(spec))

\* Reconcile, "2. Define Certificate": CreateOrUpdate of the Certificate
\* request, which refers to the Issuer of "1. Define Issuer".
upsertCertificate(name, spec, ok) ==
    Upsert(Ev("CreateOrUpdate", name \o "-cert", "", "", ok),
           <<NewControllerRef(name)>>,
           ObjectReference(IssuerNameOf(name, spec), "Issuer"), "")

(***************************************************************************)
(* Cloud targets.  provider[t] is what the environment currently lets the  *)
(* target do:                                                              *)
(*   "ok"        credentials resolve, the backend accepts every call       *)
(*   "nocred"    the credential secret cannot be read                      *)
(*   "notoken"   the secret is read and lacks api-token (cloudflare)       *)
(*   "nokeyid"   the secret is read and lacks access-key-id (aws)          *)
(*   "nosecretkey"  the secret is read and lacks secret-access-key (aws)   *)
(*   "noregion"  the secret is read and lacks only region (aws)            *)
(*   "nowrite"   the backend rejects create / import                       *)
(*   "nodelete"  the backend rejects delete                                *)
(*   "down"      the backend rejects every call                            *)
(* Only a cloudflare renewal makes a delete and a create in one pass, so   *)
(* only cloudflare needs the two states in which one of them fails; for    *)
(* aws "down" before the pass stands for either.  ProviderStates are the    *)
(* states the specifications of whole passes move through; the states of   *)
(* a secret key by key are those of SecretStates, which the specification  *)
(* of the drivers moves through.                                           *)
(***************************************************************************)
ProviderStates(t) ==
    IF t = "cloudflare" THEN {"ok", "nocred", "nowrite", "nodelete", "down"}
    ELSE {"ok", "nocred", "down"}

\* The states of a target's credential secret: complete, unreadable, or
\* lacking one of the keys the target reads from it.
SecretStates(t) ==
    IF t = "cloudflare" THEN {"ok", "nocred", "notoken"}
    ELSE {"ok", "nocred", "nokeyid", "nosecretkey", "noregion"}

WriteUp(p) == p \in {"ok", "nodelete", "noregion"}
DeleteUp(p) == p \in {"ok", "nowrite", "noregion"}

\* Identifiers the backends hand out.  A new record gets an identifier other
\* than the one passed in: the least such stands for all of them.
CloudflareID(n) == "cf-" \o ToString(n)
AWSARN(n) == "arn-" \o ToString(n)
FreshCloudflareID(existingID) ==
    CloudflareID(CHOOSE n \in 1..MaxIds :
        /\ CloudflareID(n) # existingID
        /\ \A m \in 1..(n - 1) : CloudflareID(m) = existingID)
FreshAWSARN == AWSARN(1)

\* What a driver call returns and what it did: ok, the identifier returned
\* and the calls made.
DriverOut(ok, id, cs) == [ok |-> ok, id |-> id, calls |-> cs]

\* Variant of getCloudflareClient: with no secretRef it falls back to an
\* ambient credential, as the aws driver does.
getCloudflareClientAmbient(secretRef, p) ==
    secretRef = "" \/ p \notin {"nocred", "notoken"}

\* cloudflare.Driver.getCloudflareClient: the secret named secretRef must be
\* readable (a Get of the empty name fails) and hold api-token; there is no
\* ambient fallback.
getCloudflareClient(secretRef, p) ==
    secretRef # "" /\ p \notin {"nocred", "notoken"}

\* Variant of cloudflare.Driver.Upload: it returns when the delete of the old
\* certificate fails.
CloudflareUploadStrict(secretRef, existingID, p) ==
    LET api == getCloudflareClient(secretRef, p)
        delTried == api /\ existingID # ""
        delOK == delTried /\ DeleteUp(p)
        createTried == api /\ (delTried => delOK)
        createOK == createTried /\ WriteUp(p)
        newID == IF createOK THEN FreshCloudflareID(existingID) ELSE ""
        inner == (IF delTried
                    THEN <<Ev("DeleteSSL", "cloudflare", existingID, "", delOK)>>
                    ELSE <<>>)
                 \o (IF createTried
                       THEN <<Ev("CreateSSL", "cloudflare", "", newID, createOK)>>
                       ELSE <<>>)
    IN  DriverOut(createOK, newID,
            <<Ev("Upload", "cloudflare", existingID, newID, createOK)>> \o inner)

\* cloudflare.Driver.Upload
CloudflareUpload(secretRef, existingID, p) ==
    LET api == getCloudflareClient(secretRef, p)
        delTried == api /\ existingID # ""
        delOK == delTried /\ DeleteUp(p)
        createOK == api /\ WriteUp(p)
        newID == IF createOK THEN FreshCloudflareID(existingID) ELSE ""
        inner == (IF delTried
                    THEN <<Ev("DeleteSSL", "cloudflare", existingID, "", delOK)>>
                    ELSE <<>>)
                 \o (IF api
                       THEN <<Ev("CreateSSL", "cloudflare", "", newID, createOK)>>
                       ELSE <<>>)
    IN  DriverOut(createOK, newID,
            <<Ev("Upload", "cloudflare", existingID, newID, createOK)>> \o inner)

\* cloudflare.Driver.Delete
CloudflareDelete(secretRef, identifier, p) ==
    LET api == getCloudflareClient(secretRef, p)
        delOK == api /\ DeleteUp(p)
        inner == IF api
                   THEN <<Ev("DeleteSSL", "cloudflare", identifier, "", delOK)>>
                   ELSE <<>>
    IN  DriverOut(delOK, "",
            <<Ev("Delete", "cloudflare", identifier, "", delOK)>> \o inner)

\* Variant of loadAWSConfig: only access-key-id is required.
loadAWSConfigKeyIDOnly(secretRef, p) ==
    secretRef = "" \/ p \notin {"nocred", "nokeyid"}

\* aws.Driver.loadAWSConfig: with no secretRef the ambient default chain is
\* used and the configuration loads (the SDK resolves the credentials when a
\* request is signed); with a secretRef the secret must be readable and hold
\* access-key-id and secret-access-key, region being optional.
loadAWSConfig(secretRef, p) ==
    secretRef = "" \/ p \notin {"nocred", "nokeyid", "nosecretkey"}

\* aws.Driver.Upload: imports under the existing ARN when one is given.
AWSUpload(secretRef, existingID, p) ==
    LET cfg == loadAWSConfig(secretRef, p)
        importOK == cfg /\ p # "nocred" /\ WriteUp(p)
        arn == IF ~importOK THEN ""
               ELSE IF existingID # "" THEN existingID ELSE FreshAWSARN
        inner == IF cfg
                   THEN <<Ev("ImportCertificate", "aws", existingID, arn, importOK)>>
                   ELSE <<>>
    IN  DriverOut(importOK, arn,
            <<Ev("Upload", "aws", existingID, arn, importOK)>> \o inner)

\* aws.Driver.Delete
AWSDelete(secretRef, identifier, p) ==
    LET cfg == loadAWSConfig(secretRef, p)
        delOK == cfg /\ p # "nocred" /\ DeleteUp(p)
        inner == IF cfg
                   THEN <<Ev("DeleteCertificate", "aws", identifier, "", delOK)>>
                   ELSE <<>>
    IN  DriverOut(delOK, "",
            <<Ev("Delete", "aws", identifier, "", delOK)>> \o inner)

(***************************************************************************)
(* CertificateManager                                                      *)
(***************************************************************************)
\* time.Minute, in minutes
RequeueMinute == 1

\* ctrl.Result / error returned by a pass.  changed is ProcessCertificate's
\* second return value; panicked records a nil-pointer dereference; fault is
\* the object-store operation that failed during the pass.
Result(op, fault, requeueAfter, changed, err, panicked) ==
    [op |-> op, fault |-> fault, requeueAfter |-> requeueAfter,
     changed |-> changed, err |-> err, panicked |-> panicked]

\* Before any pass, and after the environment moved.
NoResult ==
    [op |-> "none", fault |-> "none", requeueAfter |-> 0,
     changed |-> FALSE, err |-> FALSE, panicked |-> FALSE]

\* The state threaded through one pass.
PassState(status, updated, cs) ==
    [Status |-> status, statusUpdated |-> updated, calls |-> cs]

\* Variant of cloudflareEnabled: the flag is not looked at.
cloudflareEnabledIgnored(spec) == TRUE

\* cloudflareEnabled := cert.Spec.CloudflareEnabled == nil || *cert.Spec.CloudflareEnabled
cloudflareEnabled(spec) ==
    spec.CloudflareEnabled = Nil \/ Deref(spec.CloudflareEnabled)

\* Variant of certChanged: the comparison with the recorded hash is lost.
certChangedAlways(status, tlsCert) == TRUE

\* certChanged := currentCertHash != cert.Status.LastUploadedCertHash
certChanged(status, tlsCert) ==
    calculateCertHash(tlsCert) # status.LastUploadedCertHash

\* Variant of cloudflareWanted: the "&& certChanged" conjunct is lost.
cloudflareWantedUngated(spec, changed) ==
    spec.CloudflareSecretRef # "" /\ cloudflareEnabled(spec)

\* The guards of the two uploads in uploadToCloudProviders.
cloudflareWanted(spec, changed) ==
    spec.CloudflareSecretRef # "" /\ cloudflareEnabled(spec) /\ changed

awsWanted(spec, changed) ==
    spec.AWS # Nil /\ changed

\* Variant of cloudflareRecord: the flag is set outside the "err == nil" branch.
cloudflareRecordAlways(status, r) ==
    [status EXCEPT !.CloudflareUploaded = TRUE,
                   !.CloudflareCertificateID = IF r.ok THEN r.id ELSE @]

\* Status after driver.Upload returned r for the cloudflare target.
cloudflareRecord(status, r) ==
    IF r.ok
      THEN [status EXCEPT !.CloudflareUploaded = TRUE,
                          !.CloudflareCertificateID = r.id]
      ELSE status

\* Variant of awsRecord: the outcome of a failed upload is written too.
awsRecordAlways(status, r) ==
    [status EXCEPT !.AWSUploaded = r.ok, !.AWSCertificateARN = r.id]

\* Status after driver.Upload returned r for the aws target.
awsRecord(status, r) ==
    IF r.ok
      THEN [status EXCEPT !.AWSUploaded = TRUE, !.AWSCertificateARN = r.id]
      ELSE status

\* uploadToCloudProviders, cloudflare block
uploadCloudflare(spec, ps, changed, prov) ==
    IF cloudflareWanted(spec, changed)
      THEN LET r == CloudflareUpload(spec.CloudflareSecretRef,
                        ps.Status.CloudflareCertificateID, prov["cloudflare"])
           IN  PassState(cloudflareRecord(ps.Status, r),
                         ps.statusUpdated \/ r.ok, ps.calls \o r.calls)
      ELSE ps

\* Variant of uploadAWS: certData.ExistingID is taken from
\* Status.CloudflareCertificateID.
uploadAWSWrongID(spec, ps, changed, prov) ==
    IF awsWanted(spec, changed)
      THEN LET r == AWSUpload(Deref(spec.AWS).SecretRef,
                        ps.Status.CloudflareCertificateID, prov["aws"])
           IN  PassState(awsRecord(ps.Status, r),
                         ps.statusUpdated \/ r.ok, ps.calls \o r.calls)
      ELSE ps

\* uploadToCloudProviders, aws block
uploadAWS(spec, ps, changed, prov) ==
    IF awsWanted(spec, changed)
      THEN LET r == AWSUpload(Deref(spec.AWS).SecretRef,
                        ps.Status.AWSCertificateARN, prov["aws"])
           IN  PassState(awsRecord(ps.Status, r),
                         ps.statusUpdated \/ r.ok, ps.calls \o r.calls)
      ELSE ps

\* uploadToCloudProviders: cloudflare first, then aws; returns certChanged
\* beside the pass state.
uploadToCloudProviders(spec, ps, tlsCert, prov) ==
    LET changed == certChanged(ps.Status, tlsCert)
    IN  [changed |-> changed,
         ps |-> uploadAWS(spec, uploadCloudflare(spec, ps, changed, prov),
                          changed, prov)]

\* Variant of hashDue: "||" written as "&&".
hashDueBoth(changed, status) ==
    changed /\ status.CloudflareUploaded /\ status.AWSUploaded

\* if certChanged && (cert.Status.CloudflareUploaded || cert.Status.AWSUploaded)
hashDue(changed, status) ==
    changed /\ (status.CloudflareUploaded \/ status.AWSUploaded)

\* Variant of recordHash: LastUploadedTime is not set.
recordHashNoTime(up, tlsCert, now) ==
    IF up.changed /\ (up.ps.Status.CloudflareUploaded \/ up.ps.Status.AWSUploaded)
      THEN [up.ps EXCEPT !.Status.LastUploadedCertHash = calculateCertHash(tlsCert),
                         !.statusUpdated = TRUE]
      ELSE up.ps

\* Variant of recordHash: the hash and the time are set without statusUpdated.
recordHashSilent(up, tlsCert, now) ==
    IF hashDue(up.changed, up.ps.Status)
      THEN [up.ps EXCEPT !.Status.LastUploadedCertHash = calculateCertHash(tlsCert),
                         !.Status.LastUploadedTime = Ptr(now)]
      ELSE up.ps

\* ProcessCertificate from "Update hash and timestamp" to the return.
recordHash(up, tlsCert, now) ==
    IF hashDue(up.changed, up.ps.Status)
      THEN [up.ps EXCEPT !.Status.LastUploadedCertHash = calculateCertHash(tlsCert),
                         !.Status.LastUploadedTime = Ptr(now),
                         !.statusUpdated = TRUE]
      ELSE up.ps

\* types.TLSSecret: the bundle GetTLSSecret returns.
TLSSecret(crt, key) == [Certificate |-> crt, PrivateKey |-> key]

\* What GetTLSSecret returns: the pointer to the bundle and the error.
Got(secret, err) == [secret |-> secret, err |-> err]

\* Variant of GetTLSSecret: only tls.crt is checked for emptiness.
GetTLSSecretCertOnly(slot, readOK) ==
    IF ~slot.found \/ ~readOK THEN Got(Nil, TRUE)
    ELSE IF Len(slot.crt) = 0 THEN Got(Nil, FALSE)
    ELSE Got(Ptr(TLSSecret(slot.crt, slot.key)), FALSE)

\* kubernetes.Driver.GetTLSSecret: the error when the slot cannot be read,
\* (nil, nil) when tls.crt or tls.key is empty, the bundle otherwise.
GetTLSSecret(slot, readOK) ==
    IF ~slot.found \/ ~readOK THEN Got(Nil, TRUE)
    ELSE IF Len(slot.crt) = 0 \/ Len(slot.key) = 0 THEN Got(Nil, FALSE)
    ELSE Got(Ptr(TLSSecret(slot.crt, slot.key)), FALSE)

\* What WaitForReadiness returns: ctrl.Result.RequeueAfter and the error.
Waited(requeueAfter, err) == [requeueAfter |-> requeueAfter, err |-> err]

\* Variant of WaitForReadiness: a request that is not Ready is an error.
WaitForReadinessStrict(requestOK, ready) ==
    IF ~requestOK THEN Waited(0, TRUE)
    ELSE IF ~ready THEN Waited(0, TRUE)
    ELSE Waited(RequeueMinute, FALSE)

\* kubernetes.Driver.WaitForReadiness: the error when the Certificate
\* request cannot be read; a requeue after one minute when it is not Ready,
\* and the same when it is Ready (the TLS secret is then awaited).
WaitForReadiness(requestOK, ready) ==
    IF ~requestOK THEN Waited(0, TRUE)
    ELSE IF ~ready THEN Waited(RequeueMinute, FALSE)
    ELSE Waited(RequeueMinute, FALSE)

\* metav1.Now(): the wall clock does not run backwards past a recorded time.
Clock(status) ==
    {t \in 1..MaxTime :
        status.LastUploadedTime = Nil \/ t >= Deref(status.LastUploadedTime)}

\* The history variables after a pass / after a step of the environment:
\* what a pass did is observable until the environment moves.  A pass of
\* CertificateManager is "again" when the pass before it was the same
\* operation, met the same store fault, and the environment has not moved in
\* between; repetition is not tracked for Reconcile.
PassHistory(op, fault, status) ==
    /\ before' = cert.Status
    /\ after' = status
    /\ streak' = IF op # "Reconcile" /\ result.op = op /\ result.fault = fault
                  THEN "again" ELSE "first"
    /\ succeeded' = succeeded \cup
           {t \in Targets : \E i \in 1..Len(calls') :
                /\ calls'[i].op = "Upload"
                /\ calls'[i].target = t
                /\ calls'[i].ok}
    /\ records' = Track(records, calls')
    /\ UNCHANGED <<orchestration, server>>

EnvHistory ==
    /\ streak' = "none"
    /\ calls' = <<>>
    /\ result' = NoResult
    /\ before' = ZeroStatus
    /\ after' = ZeroStatus
    /\ UNCHANGED <<succeeded, orchestration, issuers, records, server>>

\* The object-store operation of a pass that fails, if any: one pass makes
\* them in a fixed order and returns at the first failure.
StoreFaults == {"none", "ensure", "read", "request"}

\* CertificateManager.ProcessCertificate, one whole call.  fault names the
\* object-store operation that fails, now is the reading of metav1.Now() and
\* gate is the readiness of the ClusterIssuer and of the Certificate request
\* while the pass runs, which the code looks at only in WaitForReadiness and
\* only for its log.
ProcessCertificate(fault, now, gate) ==
    LET met == IF gate = "ready" THEN fault ELSE fault \o "/" \o gate
        ensureOK == fault # "ensure"
        readOK == fault # "read"
        requestOK == fault # "request"
        certName == Name \o "-cert"
        ensure == <<EnsureCertificate(CertSpec(Name, cert.Spec), ensureOK)>>
        \* "Update status if needed"
        refChanged == cert.Status.CertificateRef # certName
        st1 == [cert.Status EXCEPT !.CertificateRef = certName]
        got == GetTLSSecret(tls, readOK)
        get == <<Ev("GetTLSSecret", Name \o "-tls", "", "", ~got.err)>>
        waited == WaitForReadiness(requestOK, gate # "cert")
        ps0 == PassState(st1, refChanged, ensure \o get)
        tlsSecret == Deref(got.secret)
        up == uploadToCloudProviders(cert.Spec, ps0, tlsSecret.Certificate, provider)
        ps == recordHash(up, tlsSecret.Certificate, now)
    IN  /\ orchestration = "manager"
        /\ cert.present
        \* a fault is met only in an operation the pass makes: reading a slot
        \* that exists, reading the request after the slot could not be read
        /\ fault = "read" => tls.found
        /\ fault = "request" => ~tls.found
        /\ gate # "ready" => fault = "none"
        /\ IF ~ensureOK
             THEN /\ calls' = ensure
                  /\ result' = Result("ProcessCertificate", met, 0, FALSE, TRUE, FALSE)
                  /\ UNCHANGED cert
           ELSE IF got.err
             THEN /\ calls' = ensure \o get \o
                        <<Ev("WaitForReadiness", certName, "", "", ~waited.err)>>
                  /\ result' = Result("ProcessCertificate", met,
                                      waited.requeueAfter,
                                      refChanged, waited.err, FALSE)
                  /\ cert' = [cert EXCEPT !.Status = st1]
           ELSE IF got.secret = Nil
             THEN /\ calls' = ensure \o get
                  /\ result' = Result("ProcessCertificate", met, 0, refChanged,
                                      FALSE, FALSE)
                  /\ cert' = [cert EXCEPT !.Status = st1]
           ELSE \E done \in {ps} :
                  /\ calls' = done.calls
                  /\ result' = Result("ProcessCertificate", met, 0,
                                      done.statusUpdated, FALSE, FALSE)
                  /\ cert' = [cert EXCEPT !.Status = done.Status]
        /\ PassHistory("ProcessCertificate", met, cert'.Status)
        /\ UNCHANGED <<tls, provider, issuers>>

\* CertificateManager.Finalize, one whole call.  cert.Spec.AWS is dereferenced
\* without a nil check when an ARN is recorded.
Finalize ==
    LET arn == cert.Status.AWSCertificateARN
        cfID == cert.Status.CloudflareCertificateID
        nilDeref == arn # "" /\ cert.Spec.AWS = Nil
        a == IF arn # "" /\ ~nilDeref
               THEN AWSDelete(Deref(cert.Spec.AWS).SecretRef, arn, provider["aws"])
               ELSE DriverOut(TRUE, "", <<>>)
        c == IF cfID # ""
               THEN CloudflareDelete(cert.Spec.CloudflareSecretRef, cfID,
                                     provider["cloudflare"])
               ELSE DriverOut(TRUE, "", <<>>)
    IN  /\ orchestration = "manager"
        /\ cert.present
        /\ IF nilDeref
             THEN /\ calls' = <<>>
                  /\ result' = Result("Finalize", "none", 0, FALSE, FALSE, TRUE)
             ELSE /\ calls' = a.calls \o c.calls
                  /\ result' = Result("Finalize", "none", 0, FALSE, FALSE, FALSE)
        /\ PassHistory("Finalize", "none", cert.Status)
        /\ UNCHANGED <<cert, tls, provider, issuers>>

(***************************************************************************)
(* CertificateReconciler                                                   *)
(***************************************************************************)
certificateFinalizer == "certificate.println.kr/finalizer"

\* uploadToCloudflare: read the credentials secret, require api-token and a
\* zone id, CreateSSL; the new identifier is stored in Status by the callee.
uploadToCloudflare(spec, status, p) ==
    LET token == p # "nocred"
        reached == token /\ spec.CloudflareZoneID # ""
        ok == reached /\ WriteUp(p)
        id == IF ok THEN FreshCloudflareID(status.CloudflareCertificateID) ELSE ""
        inner == IF reached
                   THEN <<Ev("CreateSSL", "cloudflare", "", id, ok)>>
                   ELSE <<>>
    IN  DriverOut(ok, id, <<Ev("Upload", "cloudflare", "", id, ok)>> \o inner)

\* uploadToAWS: default credential chain when AWSSecretRef is empty, static
\* credentials from the secret otherwise; ImportCertificate without an ARN,
\* so ACM creates a new certificate.
uploadToAWS(spec, status, p) ==
    LET cfg == spec.AWSSecretRef = "" \/ p # "nocred"
        ok == cfg /\ p # "nocred" /\ WriteUp(p)
        arn == IF ok THEN FreshAWSARN ELSE ""
        inner == IF cfg
                   THEN <<Ev("ImportCertificate", "aws", "", arn, ok)>>
                   ELSE <<>>
    IN  DriverOut(ok, arn, <<Ev("Upload", "aws", "", arn, ok)>> \o inner)

\* deleteFromAWS: the credential logic of uploadToAWS, then DeleteCertificate.
deleteFromAWS(spec, status, p) ==
    LET cfg == spec.AWSSecretRef = "" \/ p # "nocred"
        ok == cfg /\ p # "nocred" /\ DeleteUp(p)
        arn == status.AWSCertificateARN
        inner == IF cfg
                   THEN <<Ev("DeleteCertificate", "aws", arn, "", ok)>>
                   ELSE <<>>
    IN  DriverOut(ok, "", <<Ev("Delete", "aws", arn, "", ok)>> \o inner)

\* deleteFromCloudflare: the secret named by CloudflareSecretRef (a Get of
\* the empty name fails), api-token, zone id, DeleteSSL.
deleteFromCloudflare(spec, status, p) ==
    LET token == spec.CloudflareSecretRef # "" /\ p # "nocred"
        reached == token /\ spec.CloudflareZoneID # ""
        ok == reached /\ DeleteUp(p)
        id == status.CloudflareCertificateID
        inner == IF reached
                   THEN <<Ev("DeleteSSL", "cloudflare", id, "", ok)>>
                   ELSE <<>>
    IN  DriverOut(ok, "", <<Ev("Delete", "cloudflare", id, "", ok)>> \o inner)

\* Variant of finalizeCertificate: it returns after a failed AWS delete.
finalizeCertificateStops(spec, status, prov) ==
    LET a == IF status.AWSCertificateARN # ""
               THEN deleteFromAWS(spec, status, prov["aws"])
               ELSE DriverOut(TRUE, "", <<>>)
        c == IF status.CloudflareCertificateID # "" /\ a.ok
               THEN deleteFromCloudflare(spec, status, prov["cloudflare"]).calls
               ELSE <<>>
    IN  [err |-> FALSE, calls |-> a.calls \o c]

\* finalizeCertificate: AWS first, then Cloudflare, each only when its
\* identifier is recorded; failures are logged; the return value is nil.
finalizeCertificate(spec, status, prov) ==
    LET a == IF status.AWSCertificateARN # ""
               THEN deleteFromAWS(spec, status, prov["aws"]).calls
               ELSE <<>>
        c == IF status.CloudflareCertificateID # ""
               THEN deleteFromCloudflare(spec, status, prov["cloudflare"]).calls
               ELSE <<>>
    IN  [err |-> FALSE, calls |-> a \o c]

\* Reconcile, steps 7 and 8: the uploads, each gated by its Uploaded flag.
reconcileCloudflare(spec, ps, prov) ==
    LET enabled == spec.CloudflareEnabled = Nil \/ Deref(spec.CloudflareEnabled)
    IN  IF spec.CloudflareSecretRef # "" /\ enabled /\ ~ps.Status.CloudflareUploaded
          THEN LET r == uploadToCloudflare(spec, ps.Status, prov["cloudflare"])
               IN  IF r.ok
                     THEN PassState([ps.Status EXCEPT !.CloudflareUploaded = TRUE,
                                                      !.CloudflareCertificateID = r.id],
                                    TRUE, ps.calls \o r.calls)
                     ELSE PassState(ps.Status, ps.statusUpdated, ps.calls \o r.calls)
          ELSE ps

\* Variant of reconcileAWS: AWSUploaded is set whatever uploadToAWS returned.
reconcileAWSAlways(spec, ps, prov) ==
    LET enabled == spec.AWSEnabled = Nil \/ Deref(spec.AWSEnabled)
    IN  IF enabled /\ ~ps.Status.AWSUploaded /\ spec.AWSSecretRef # ""
          THEN LET r == uploadToAWS(spec, ps.Status, prov["aws"])
               IN  PassState([ps.Status EXCEPT !.AWSUploaded = TRUE,
                                                !.AWSCertificateARN = r.id],
                             TRUE, ps.calls \o r.calls)
          ELSE ps

reconcileAWS(spec, ps, prov) ==
    LET enabled == spec.AWSEnabled = Nil \/ Deref(spec.AWSEnabled)
    IN  IF enabled /\ ~ps.Status.AWSUploaded /\ spec.AWSSecretRef # ""
          THEN LET r == uploadToAWS(spec, ps.Status, prov["aws"])
               IN  IF r.ok
                     THEN PassState([ps.Status EXCEPT !.AWSUploaded = TRUE,
                                                      !.AWSCertificateARN = r.id],
                                    TRUE, ps.calls \o r.calls)
                     ELSE PassState(ps.Status, ps.statusUpdated, ps.calls \o r.calls)
          ELSE ps

\* What one Reconcile leaves: the stored resource, the calls made, the
\* returned ctrl.Result / error and the Status of the pass's own copy.
Outcome(obj, cs, requeueAfter, err, status) ==
    [cert |-> obj, calls |-> cs, requeueAfter |-> requeueAfter, err |-> err,
     status |-> status]

\* The failures of the object store a Reconcile can meet, and what the pass
\* finds when it looks at the readiness of the Issuer and of the Certificate
\* request.
CtrlFaults == {"none", "get", "update", "issuer", "request", "secret", "status"}
Gates == {"ready", "issuer", "cert"}

\* Variant of persistStatus: a failed upload is returned as the error of the
\* pass.
persistStatusStrict(obj, ps, fault) ==
    LET failed == \E i \in 1..Len(ps.calls) :
                      ps.calls[i].op = "Upload" /\ ~ps.calls[i].ok
        cs == IF ps.statusUpdated
                THEN ps.calls \o <<Ev("StatusUpdate", Name, "", "", fault # "status")>>
                ELSE ps.calls
        written == ps.statusUpdated /\ fault # "status"
    IN  Outcome(IF written THEN [obj EXCEPT !.Status = ps.Status] ELSE obj, cs,
                IF failed \/ (ps.statusUpdated /\ ~written) THEN 0 ELSE RequeueMinute,
                failed \/ (ps.statusUpdated /\ ~written), ps.Status)

\* Variant of persistStatus: Status is written whether or not the pass
\* changed it.
persistStatusUnconditional(obj, ps, fault) ==
    IF fault = "status"
      THEN Outcome(obj, ps.calls \o <<Ev("StatusUpdate", Name, "", "", FALSE)>>,
                   0, TRUE, ps.Status)
      ELSE Outcome([obj EXCEPT !.Status = ps.Status],
                   ps.calls \o <<Ev("StatusUpdate", Name, "", "", TRUE)>>,
                   RequeueMinute, FALSE, ps.Status)

\* Variant of persistStatus: a pass that changed nothing asks for no requeue.
persistStatusQuiet(obj, ps, fault) ==
    IF ps.statusUpdated
      THEN IF fault = "status"
             THEN Outcome(obj, ps.calls \o <<Ev("StatusUpdate", Name, "", "", FALSE)>>,
                          0, TRUE, ps.Status)
             ELSE Outcome([obj EXCEPT !.Status = ps.Status],
                          ps.calls \o <<Ev("StatusUpdate", Name, "", "", TRUE)>>,
                          RequeueMinute, FALSE, ps.Status)
      ELSE Outcome(obj, ps.calls, 0, FALSE, ps.Status)

\* r.Status().Update when statusUpdated, then the return of the pass: used by
\* each waiting branch and by the end of Reconcile.
persistStatus(obj, ps, fault) ==
    IF ps.statusUpdated
      THEN IF fault = "status"
             THEN Outcome(obj, ps.calls \o <<Ev("StatusUpdate", Name, "", "", FALSE)>>,
                          0, TRUE, ps.Status)
             ELSE Outcome([obj EXCEPT !.Status = ps.Status],
                          ps.calls \o <<Ev("StatusUpdate", Name, "", "", TRUE)>>,
                          RequeueMinute, FALSE, ps.Status)
      ELSE Outcome(obj, ps.calls, RequeueMinute, FALSE, ps.Status)

\* Variant of reconcileDeleting: a failed delete is returned as the error of
\* the pass and the finalizer stays.
reconcileDeletingStrict(obj, got, fault, prov) ==
    IF certificateFinalizer \in obj.Finalizers
      THEN LET fin == finalizeCertificate(obj.Spec, obj.Status, prov)
               left == obj.Finalizers \ {certificateFinalizer}
               failed == \E i \in 1..Len(fin.calls) : ~fin.calls[i].ok
           IN  IF failed \/ fault = "update"
                 THEN Outcome(obj, got \o fin.calls, 0, TRUE, obj.Status)
                 ELSE Outcome([obj EXCEPT !.Finalizers = left, !.present = left # {}],
                              got \o fin.calls \o <<Ev("Update", Name, "", "", TRUE)>>,
                              0, FALSE, obj.Status)
      ELSE Outcome(obj, got, 0, FALSE, obj.Status)

\* Variant of reconcileDeleting: the finalize step and the write run whether
\* or not the resource still carries the finalizer.
reconcileDeletingUnguarded(obj, got, fault, prov) ==
    LET fin == finalizeCertificate(obj.Spec, obj.Status, prov)
        left == obj.Finalizers \ {certificateFinalizer}
        upd(ok) == <<Ev("Update", Name, "", "", ok)>>
    IN  IF fault = "update"
          THEN Outcome(obj, got \o fin.calls \o upd(FALSE), 0, TRUE, obj.Status)
          ELSE Outcome([obj EXCEPT !.Finalizers = left, !.present = left # {}],
                       got \o fin.calls \o upd(TRUE), 0, FALSE, obj.Status)

\* Reconcile on a resource carrying a deletion timestamp.  Removing the last
\* finalizer of such a resource lets the store remove it.
reconcileDeleting(obj, got, fault, prov) ==
    IF certificateFinalizer \in obj.Finalizers
      THEN LET fin == finalizeCertificate(obj.Spec, obj.Status, prov)
               left == obj.Finalizers \ {certificateFinalizer}
               upd(ok) == <<Ev("Update", Name, "", "", ok)>>
           IN  IF fin.err
                 THEN Outcome(obj, got \o fin.calls, 0, TRUE, obj.Status)
               ELSE IF fault = "update"
                 THEN Outcome(obj, got \o fin.calls \o upd(FALSE), 0, TRUE, obj.Status)
               ELSE Outcome([obj EXCEPT !.Finalizers = left, !.present = left # {}],
                            got \o fin.calls \o upd(TRUE), 0, FALSE, obj.Status)
      ELSE Outcome(obj, got, 0, FALSE, obj.Status)

\* Variant of reconcileStatus: only tls.crt is checked for emptiness.
reconcileStatusCertOnly(obj, cs, fault, gate, slot, prov) ==
    LET issuerName == IssuerNameOf(Name, obj.Spec)
        certName == Name \o "-cert"
        refChanged == obj.Status.IssuerRef # issuerName
                        \/ obj.Status.CertificateRef # certName
        st == IF refChanged
                THEN [obj.Status EXCEPT !.IssuerRef = issuerName,
                                        !.CertificateRef = certName]
                ELSE obj.Status
        ps0 == PassState(st, refChanged, cs)
        readOK == slot.found /\ fault # "secret"
        ps1 == PassState(st, refChanged,
                         cs \o <<Ev("GetSecret", Name \o "-tls", "", "", readOK)>>)
        ps2 == reconcileAWS(obj.Spec, reconcileCloudflare(obj.Spec, ps1, prov), prov)
    IN  IF gate # "ready" THEN persistStatus(obj, ps0, fault)
        ELSE IF ~readOK THEN persistStatus(obj, ps1, fault)
        ELSE IF Len(slot.crt) = 0 THEN persistStatus(obj, ps1, fault)
        ELSE persistStatus(obj, ps2, fault)

\* Reconcile from "3. Update Status" on: obj already carries the finalizer.
reconcileStatus(obj, cs, fault, gate, slot, prov) ==
    LET issuerName == IssuerNameOf(Name, obj.Spec)
        certName == Name \o "-cert"
        refChanged == obj.Status.IssuerRef # issuerName
                        \/ obj.Status.CertificateRef # certName
        st == IF refChanged
                THEN [obj.Status EXCEPT !.IssuerRef = issuerName,
                                        !.CertificateRef = certName]
                ELSE obj.Status
        ps0 == PassState(st, refChanged, cs)
        readOK == slot.found /\ fault # "secret"
        ps1 == PassState(st, refChanged,
                         cs \o <<Ev("GetSecret", Name \o "-tls", "", "", readOK)>>)
        ps2 == reconcileAWS(obj.Spec, reconcileCloudflare(obj.Spec, ps1, prov), prov)
    IN  IF gate # "ready" THEN persistStatus(obj, ps0, fault)
        ELSE IF ~readOK THEN persistStatus(obj, ps1, fault)
        ELSE IF Len(slot.crt) = 0 \/ Len(slot.key) = 0
          THEN persistStatus(obj, ps1, fault)
        ELSE persistStatus(obj, ps2, fault)

\* Variant of reconcileForward: the finalizer is added and written after the
\* Issuer has been created or updated.
reconcileForwardLate(obj, got, fault, gate, slot, prov) ==
    LET has == certificateFinalizer \in obj.Finalizers
        held == [obj EXCEPT !.Finalizers = @ \cup {certificateFinalizer}]
        cs1 == got \o <<upsertIssuer(Name, obj.Spec, fault # "issuer")>>
        cs2 == IF has THEN cs1
               ELSE cs1 \o <<Ev("Update", Name, "", "", fault # "update")>>
        cs3 == cs2 \o <<upsertCertificate(Name, obj.Spec, fault # "request")>>
    IN  IF fault = "issuer"
          THEN Outcome(obj, cs1, 0, TRUE, obj.Status)
        ELSE IF ~has /\ fault = "update"
          THEN Outcome(obj, cs2, 0, TRUE, obj.Status)
        ELSE IF fault = "request"
          THEN Outcome(held, cs3, 0, TRUE, obj.Status)
        ELSE reconcileStatus(held, cs3, fault, gate, slot, prov)

\* Reconcile on a resource without deletion timestamp: the finalizer, the
\* Issuer, the Certificate request, then the rest.
reconcileForward(obj, got, fault, gate, slot, prov) ==
    LET has == certificateFinalizer \in obj.Finalizers
        held == [obj EXCEPT !.Finalizers = @ \cup {certificateFinalizer}]
        cs1 == IF has THEN got
               ELSE got \o <<Ev("Update", Name, "", "", fault # "update")>>
        cs2 == cs1 \o <<upsertIssuer(Name, obj.Spec, fault # "issuer")>>
        cs3 == cs2 \o <<upsertCertificate(Name, obj.Spec, fault # "request")>>
    IN  IF ~has /\ fault = "update"
          THEN Outcome(obj, cs1, 0, TRUE, obj.Status)
        ELSE IF fault = "issuer"
          THEN Outcome(held, cs2, 0, TRUE, obj.Status)
        ELSE IF fault = "request"
          THEN Outcome(held, cs3, 0, TRUE, obj.Status)
        ELSE reconcileStatus(held, cs3, fault, gate, slot, prov)

\* CertificateReconciler.Reconcile, one whole call.
reconcile(obj, fault, gate, slot, prov) ==
    LET got(ok, why) == <<Ev("Get", Name, "", why, ok)>>
    IN  IF fault = "get"
          THEN Outcome(obj, got(FALSE, "error"), 0, TRUE, ZeroStatus)
        ELSE IF ~obj.present
          THEN Outcome(obj, got(FALSE, "NotFound"), 0, FALSE, ZeroStatus)
        ELSE IF obj.DeletionTimestamp # Nil
          THEN reconcileDeleting(obj, got(TRUE, ""), fault, prov)
        ELSE reconcileForward(obj, got(TRUE, ""), fault, gate, slot, prov)

\* The faults and readiness a pass can meet in the state it starts from: a
\* store operation fails only in a pass that makes it.
Meets(obj, fault, gate, slot, prov) ==
    LET plain == reconcile(obj, "none", gate, slot, prov)
        forward == obj.present /\ obj.DeletionTimestamp = Nil
        has == certificateFinalizer \in obj.Finalizers
        writes == \E i \in 1..Len(plain.calls) : plain.calls[i].op = "StatusUpdate"
    IN  /\ gate # "ready" => forward /\ fault \in {"none", "status"}
        /\ fault = "update" => obj.present /\ (has <=> obj.DeletionTimestamp # Nil)
        /\ fault \in {"issuer", "request"} => forward
        /\ fault = "secret" => forward /\ slot.found
        /\ fault = "status" => forward /\ writes

Reconcile(fault, gate) ==
    /\ orchestration = "controller"
    /\ Meets(cert, fault, gate, tls, provider)
    /\ \E o \in {reconcile(cert, fault, gate, tls, provider)} :
        /\ cert' = o.cert
        /\ calls' = o.calls
        /\ result' = Result("Reconcile", fault \o "/" \o gate, o.requeueAfter,
                            o.status # cert.Status, o.err, FALSE)
        /\ PassHistory("Reconcile", fault \o "/" \o gate, o.status)
        /\ UNCHANGED <<tls, provider, issuers>>

(***************************************************************************)
(* The environment: the resource owner, cert-manager, the cloud backends   *)
(***************************************************************************)
\* *AWSConfig as CertificateManager reads it (CredentialType, SecretRef).
AWSConfig(secretRef) == [CredentialType |-> "", SecretRef |-> secretRef]

\* CertificateSpec.  CloudflareSecretRef, CloudflareZoneID, CloudflareEnabled
\* are read by both orchestrations; AWS by CertificateManager; AWSSecretRef,
\* AWSEnabled, IssuerName and IngressClassName by CertificateReconciler.
CertificateSpec(cfRef, cfZone, cfEnabled, aws, awsRef, awsEnabled) ==
    [Domain |-> "example.com", Email |-> "admin@example.com",
     ClusterIssuerName |-> "", IssuerName |-> "", IngressClassName |-> "",
     CloudflareSecretRef |-> cfRef, CloudflareZoneID |-> cfZone,
     CloudflareEnabled |-> cfEnabled,
     AWS |-> aws, AWSSecretRef |-> awsRef, AWSEnabled |-> awsEnabled]

OptBool == {Nil, Ptr(TRUE), Ptr(FALSE)}

\* The settings of one target an owner can choose: not configured, or
\* configured with the enable flag unset, true or false.
Settings(ref) == {<<"", Nil>>} \cup {<<ref, e>> : e \in OptBool}

\* The Specs an owner can give a resource handled by CertificateManager.
ManagerSpecs ==
    {CertificateSpec(cf[1], "zone-1", cf[2], aws, "", Nil) :
        cf \in Settings("cloudflare-credentials"),
        aws \in {Nil, Ptr(AWSConfig("")), Ptr(AWSConfig("aws-credentials"))}}

\* The Certificate object as the store holds it.
Certificate(spec) ==
    [present |-> TRUE, Spec |-> spec, Status |-> ZeroStatus,
     Finalizers |-> {}, DeletionTimestamp |-> Nil]

\* The key-material slot: absent, or a Secret with tls.crt and tls.key.
NoSlot == [found |-> FALSE, crt |-> NoBytes, key |-> NoBytes]
Slot(crt, key) == [found |-> TRUE, crt |-> crt, key |-> key]
Slots == {NoSlot, Slot(NoBytes, KeyBytes), Slot(<<1>>, NoBytes)}
         \cup {Slot(c, KeyBytes) : c \in Certs}

\* cert-manager (or anyone) writes or removes the key-material slot.
WriteSlot(slot) ==
    /\ cert.present
    /\ slot # tls
    /\ tls' = slot
    /\ EnvHistory
    /\ UNCHANGED <<cert, provider>>

\* The targets the resource is configured for: the others are never called
\* with credentials that could resolve.
Configured(spec) ==
    {t \in Targets : IF t = "cloudflare" THEN spec.CloudflareSecretRef # ""
                     ELSE spec.AWS # Nil \/ spec.AWSSecretRef # ""}

\* A cloud target's credentials or backend change behaviour.
ProviderChange(t, p) ==
    /\ cert.present
    /\ t \in Configured(cert.Spec)
    /\ provider[t] # p
    /\ provider' = [provider EXCEPT ![t] = p]
    /\ EnvHistory
    /\ UNCHANGED <<cert, tls>>

\* The Specs an owner can give a resource handled by CertificateReconciler.
CtrlSpecs ==
    {CertificateSpec(cf[1], "zone-1", cf[2], Nil, aws[1], aws[2]) :
        cf \in Settings("cloudflare-credentials"),
        aws \in Settings("aws-credentials")}

\* The owner replaces the Spec of the resource (kubectl apply, or the REST
\* API's UpdateCertificate).
UpdateSpec(spec) ==
    /\ cert.present
    /\ spec # cert.Spec
    /\ cert' = [cert EXCEPT !.Spec = spec]
    /\ EnvHistory
    /\ UNCHANGED <<tls, provider>>

\* The owner deletes the resource: the store sets the deletion timestamp
\* when finalizers are present and removes the object otherwise.
DeleteResource ==
    /\ cert.present
    /\ cert.DeletionTimestamp = Nil
    /\ cert' = IF cert.Finalizers = {}
                 THEN [cert EXCEPT !.present = FALSE]
                 ELSE [cert EXCEPT !.DeletionTimestamp = Ptr(1)]
    /\ EnvHistory
    /\ UNCHANGED <<tls, provider>>

EnvInit ==
    /\ tls = NoSlot
    /\ provider = [t \in Targets |-> "ok"]
    /\ calls = <<>>
    /\ result = NoResult
    /\ before = ZeroStatus
    /\ after = ZeroStatus
    /\ streak = "none"
    /\ succeeded = {}
    /\ issuers = NoIssuers
    /\ records = Untracked
    /\ server = NoServer

(***************************************************************************)
(* Specification Spec: a resource driven by CertificateManager             *)
(***************************************************************************)
Init ==
    /\ orchestration = "manager"
    /\ cert \in {Certificate(spec) : spec \in ManagerSpecs}
    /\ EnvInit

Process ==
    \E fault \in StoreFaults, now \in Clock(cert.Status) :
        ProcessCertificate(fault, now, "ready")

Issue == \E slot \in Slots : WriteSlot(slot)

Outage == \E t \in Targets : \E p \in ProviderStates(t) : ProviderChange(t, p)

Next == Process \/ Finalize \/ Issue \/ Outage

Spec == Init /\ [][Next]_vars

\* Spec with an owner who also edits the Spec between passes.
Edit == \E spec \in ManagerSpecs : UpdateSpec(spec)

NextOwner == Next \/ Edit

SpecOwner == Init /\ [][NextOwner]_vars

(***************************************************************************)
(* Specification SpecCtrl: a resource driven by CertificateReconciler      *)
(***************************************************************************)
InitCtrl ==
    /\ orchestration = "controller"
    /\ cert \in {Certificate(spec) : spec \in CtrlSpecs}
    /\ EnvInit

Pass == \E fault \in CtrlFaults, gate \in Gates : Reconcile(fault, gate)

NextCtrl == Pass \/ Issue \/ Outage \/ DeleteResource

SpecCtrl == InitCtrl /\ [][NextCtrl]_vars

\* Teardown under fair scheduling: the passes meet no failure of the store
\* other than of the write of the resource, the issuer delivers one
\* certificate, the cloud targets fail and recover at will, and a Reconcile
\* that meets no store failure is not postponed forever.
FairPass == \E fault \in {"none", "update"} : Reconcile(fault, "ready")

FirstIssue == WriteSlot(Slot(<<1>>, KeyBytes))

NextCtrlFair == FairPass \/ FirstIssue \/ Outage \/ DeleteResource

SpecCtrlFair ==
    InitCtrl /\ [][NextCtrlFair]_vars /\ WF_vars(Reconcile("none", "ready"))

(***************************************************************************)
(* Specification SpecAll: either orchestration                             *)
(***************************************************************************)
InitAll == Init \/ InitCtrl

NextAll == Next \/ NextCtrl

SpecAll == InitAll /\ [][NextAll]_vars

(***************************************************************************)
(* Specification SpecPending: CertificateManager while the ClusterIssuer   *)
(* or the Certificate request may be not Ready during a pass               *)
(***************************************************************************)
ProcessAny ==
    \E fault \in StoreFaults, now \in Clock(cert.Status), gate \in Gates :
        ProcessCertificate(fault, now, gate)

NextPending == ProcessAny \/ Issue \/ Outage

SpecPending == Init /\ [][NextPending]_vars

(***************************************************************************)
(* Specification SpecDriver: the two cloud drivers called directly, with    *)
(* any existing identifier, over every state of their credential secrets   *)
(* and backends                                                            *)
(***************************************************************************)
\* Config.SecretRef of the driver NewDriver builds for target t.
SecretRefOf(spec, t) ==
    IF t = "cloudflare" THEN spec.CloudflareSecretRef
    ELSE Deref(spec.AWS).SecretRef

\* CertificateData.ExistingID / the identifier given to Delete.
IDs(t) ==
    {""} \cup {IF t = "cloudflare" THEN CloudflareID(n) ELSE AWSARN(n) :
                  n \in 1..MaxIds}

\* Driver.Upload of target t, one whole call.
DriverUpload(t, existingID) ==
    /\ orchestration = "driver"
    /\ \E r \in {IF t = "cloudflare"
                   THEN CloudflareUpload(SecretRefOf(cert.Spec, t), existingID,
                                         provider[t])
                   ELSE AWSUpload(SecretRefOf(cert.Spec, t), existingID,
                                  provider[t])} :
        /\ calls' = r.calls
        /\ result' = Result("Upload", "none", 0, FALSE, ~r.ok, FALSE)
    /\ PassHistory("Upload", "none", cert.Status)
    /\ UNCHANGED <<cert, tls, provider, issuers>>

\* Driver.Delete of target t, one whole call.
DriverDelete(t, identifier) ==
    /\ orchestration = "driver"
    /\ \E r \in {IF t = "cloudflare"
                   THEN CloudflareDelete(SecretRefOf(cert.Spec, t), identifier,
                                         provider[t])
                   ELSE AWSDelete(SecretRefOf(cert.Spec, t), identifier,
                                  provider[t])} :
        /\ calls' = r.calls
        /\ result' = Result("Delete", "none", 0, FALSE, ~r.ok, FALSE)
    /\ PassHistory("Delete", "none", cert.Status)
    /\ UNCHANGED <<cert, tls, provider, issuers>>

\* The configurations the drivers are built with: each secretRef set or not.
DriverSpecs ==
    {CertificateSpec(cf, "zone-1", Nil, Ptr(AWSConfig(aws)), "", Nil) :
        cf \in {"", "cloudflare-credentials"}, aws \in {"", "aws-credentials"}}

InitDriver ==
    /\ orchestration = "driver"
    /\ cert \in {Certificate(spec) : spec \in DriverSpecs}
    /\ EnvInit

CallUpload == \E t \in Targets : \E id \in IDs(t) : DriverUpload(t, id)

CallDelete == \E t \in Targets : \E id \in IDs(t) \ {""} : DriverDelete(t, id)

\* A credential secret is rewritten or a backend changes behaviour.
Rotate ==
    \E t \in Targets : \E p \in ProviderStates(t) \cup SecretStates(t) :
        ProviderChange(t, p)

NextDriver == CallUpload \/ CallDelete \/ Rotate

SpecDriver == InitDriver /\ [][NextDriver]_vars

(***************************************************************************)
(* Specification SpecIssuance: the kubernetes driver (EnsureCertificate,   *)
(* GetTLSSecret, WaitForReadiness) called directly, over every content of  *)
(* the key-material slot and every state of the Certificate request        *)
(***************************************************************************)
\* The key-material slot with tls.crt and tls.key each empty or not.
AnySlots ==
    {NoSlot} \cup {Slot(c, k) : c \in {NoBytes} \cup Certs, k \in {NoBytes, KeyBytes}}

\* What a call met: the failing store operation, and the readiness of the
\* Certificate request when it is not Ready.
Met(fault, gate) == IF gate = "ready" THEN fault ELSE fault \o "/" \o gate

\* Driver.EnsureCertificate, one whole call: CreateOrUpdate of <Name>-cert.
DriverEnsureCertificate(fault) ==
    /\ orchestration = "issuance"
    /\ calls' = <<EnsureCertificate(CertSpec(Name, cert.Spec), fault # "ensure")>>
    /\ result' = Result("EnsureCertificate", fault, 0, FALSE, fault = "ensure", FALSE)
    /\ PassHistory("EnsureCertificate", fault, cert.Status)
    /\ UNCHANGED <<cert, tls, provider, issuers>>

\* Driver.GetTLSSecret, one whole call; the bundle returned is kept beside
\* the result.
DriverGetTLSSecret(fault) ==
    /\ orchestration = "issuance"
    /\ fault = "read" => tls.found
    /\ \E got \in {GetTLSSecret(tls, fault # "read")} :
        /\ calls' = <<Ev("GetTLSSecret", Name \o "-tls", "", "", ~got.err)>>
        /\ result' = [secret |-> got.secret]
                       @@ Result("GetTLSSecret", fault, 0, FALSE, got.err, FALSE)
    /\ PassHistory("GetTLSSecret", fault, cert.Status)
    /\ UNCHANGED <<cert, tls, provider, issuers>>

\* Driver.WaitForReadiness, one whole call: fault = "request" when the
\* Certificate request cannot be read, gate = "cert" when it is not Ready.
DriverWaitForReadiness(fault, gate) ==
    /\ orchestration = "issuance"
    /\ gate # "ready" => fault = "none"
    /\ \E w \in {WaitForReadiness(fault # "request", gate # "cert")} :
        /\ calls' = <<Ev("WaitForReadiness", Name \o "-cert", "", "", ~w.err)>>
        /\ result' = Result("WaitForReadiness", Met(fault, gate), w.requeueAfter,
                            FALSE, w.err, FALSE)
    /\ PassHistory("WaitForReadiness", Met(fault, gate), cert.Status)
    /\ UNCHANGED <<cert, tls, provider, issuers>>

InitIssuance ==
    /\ orchestration = "issuance"
    /\ cert \in {Certificate(spec) : spec \in ManagerSpecs}
    /\ EnvInit

CallEnsureCertificate == \E fault \in {"none", "ensure"} : DriverEnsureCertificate(fault)

CallGetTLSSecret == \E fault \in {"none", "read"} : DriverGetTLSSecret(fault)

CallWaitForReadiness ==
    \E fault \in {"none", "request"}, gate \in {"ready", "cert"} :
        DriverWaitForReadiness(fault, gate)

IssueAny == \E slot \in AnySlots : WriteSlot(slot)

NextIssuance ==
    CallEnsureCertificate \/ CallGetTLSSecret \/ CallWaitForReadiness \/ IssueAny

SpecIssuance == InitIssuance /\ [][NextIssuance]_vars

(***************************************************************************)
(* Specification SpecTeardown: a resource driven by CertificateReconciler  *)
(* on which another party holds a finalizer of its own, so that the        *)
(* resource outlives the removal of certificateFinalizer                   *)
(***************************************************************************)
\* The finalizer of a foreground deletion, held by the garbage collector.
foregroundDeletion == "foregroundDeletion"

\* A deletion in the foreground: the store adds the finalizer of the garbage
\* collector and sets the deletion timestamp.
DeleteForeground ==
    /\ cert.present
    /\ cert.DeletionTimestamp = Nil
    /\ cert' = [cert EXCEPT !.Finalizers = @ \cup {foregroundDeletion},
                            !.DeletionTimestamp = Ptr(1)]
    /\ EnvHistory
    /\ UNCHANGED <<tls, provider>>

\* The garbage collector is done with the dependents and removes its
\* finalizer; the store removes the resource when none is left.
ReleaseForeground ==
    /\ cert.present
    /\ foregroundDeletion \in cert.Finalizers
    /\ cert' = [cert EXCEPT !.Finalizers = @ \ {foregroundDeletion},
                            !.present = (cert.Finalizers \ {foregroundDeletion}) # {}]
    /\ EnvHistory
    /\ UNCHANGED <<tls, provider>>

\* The Specs of the resource: each target configured or not.
TeardownSpecs ==
    {CertificateSpec(cf, "zone-1", Nil, Nil, aws, Nil) :
        cf \in {"", "cloudflare-credentials"}, aws \in {"", "aws-credentials"}}

InitTeardown ==
    /\ orchestration = "controller"
    /\ cert \in {Certificate(spec) : spec \in TeardownSpecs}
    /\ EnvInit

NextTeardown ==
    Pass \/ Issue \/ Outage \/ DeleteResource \/ DeleteForeground \/ ReleaseForeground

SpecTeardown == InitTeardown /\ [][NextTeardown]_vars

(***************************************************************************)
(* Specification SpecPair: two Certificate resources in one namespace,     *)
(* each reconciled by CertificateReconciler.  The resource Name is         *)
(* followed in full; of the resource Peer the model keeps what its passes  *)
(* leave in the store both can reach, the Issuer objects.                  *)
(***************************************************************************)
\* ctrl.SetControllerReference inside the mutate function of CreateOrUpdate:
\* it fails when the Issuer is already controlled by another object.
AlreadyOwned(name, issuerName, iss) == iss[issuerName] \notin {"", name}

\* Reconcile of the resource Name over the Issuer objects iss: the pass that
\* gets to the Issuer's CreateOrUpdate fails there when another Certificate
\* controls the Issuer, and takes control of it otherwise.
reconcileShared(obj, fault, gate, slot, prov, iss) ==
    LET issuerName == IssuerNameOf(Name, obj.Spec)
        forward == obj.present /\ obj.DeletionTimestamp = Nil
        has == certificateFinalizer \in obj.Finalizers
        reaches == forward /\ fault # "get" /\ ~(~has /\ fault = "update")
        refused == reaches /\ AlreadyOwned(Name, issuerName, iss)
        o == reconcile(obj, IF refused THEN "issuer" ELSE fault, gate, slot, prov)
        upserted == \E i \in 1..Len(o.calls) :
                        /\ o.calls[i].op = "CreateOrUpdate"
                        /\ o.calls[i].target = issuerName
                        /\ o.calls[i].ok
    IN  [o |-> o,
         refused |-> refused,
         issuers |-> IF upserted THEN [iss EXCEPT ![issuerName] = Name] ELSE iss]

\* CertificateReconciler.Reconcile of the resource Name, one whole call.
\* fault and gate are what the store and the issuance objects do to the
\* pass; a pass refused at the Issuer meets none of them.
ReconcileShared(fault, gate) ==
    /\ orchestration = "controller"
    /\ Meets(cert, fault, gate, tls, provider)
    /\ \E r \in {reconcileShared(cert, fault, gate, tls, provider, issuers)} :
        /\ r.refused => fault = "none" /\ gate = "ready"
        /\ cert' = r.o.cert
        /\ calls' = r.o.calls
        /\ issuers' = r.issuers
        /\ result' = Result("Reconcile", fault \o "/" \o gate, r.o.requeueAfter,
                            r.o.status # cert.Status, r.o.err, FALSE)
        /\ PassHistory("Reconcile", fault \o "/" \o gate, r.o.status)
        /\ UNCHANGED <<tls, provider>>

\* CertificateReconciler.Reconcile of the resource Peer, as far as the
\* Issuer's CreateOrUpdate: issuerName is the Issuer its Spec names.
PeerReconcile(issuerName) ==
    /\ orchestration = "controller"
    /\ ~AlreadyOwned(Peer, issuerName, issuers)
    /\ issuers[issuerName] # Peer
    /\ issuers' = [issuers EXCEPT ![issuerName] = Peer]
    /\ streak' = "none"
    /\ calls' = <<>>
    /\ result' = NoResult
    /\ before' = ZeroStatus
    /\ after' = ZeroStatus
    /\ UNCHANGED <<cert, tls, provider, succeeded, orchestration, records, server>>

\* The Specs of the resource Name: Cloudflare configured, AWS configured or
\* not, the Issuer its own by default or one named by the owner.
PairSpecs ==
    {[CertificateSpec("cloudflare-credentials", "zone-1", Nil, Nil, aws, Nil)
        EXCEPT !.IssuerName = n] :
        aws \in {"", "aws-credentials"}, n \in {"", "shared-issuer"}}

InitPair ==
    /\ orchestration = "controller"
    /\ cert \in {Certificate(spec) : spec \in PairSpecs}
    /\ EnvInit

PairPass == \E fault \in CtrlFaults, gate \in Gates : ReconcileShared(fault, gate)

PeerPass == \E n \in {Peer \o "-issuer", "shared-issuer"} : PeerReconcile(n)

NextPair == PairPass \/ PeerPass \/ Issue \/ Outage \/ DeleteResource

SpecPair == InitPair /\ [][NextPair]_vars

(***************************************************************************)
(* Observations on the most recent pass                                    *)
(***************************************************************************)
\* The most recent step was a pass of ProcessCertificate.
Ran == result.op = "ProcessCertificate"

\* ... and it got the key material and so reached distribution.
Distributed ==
    /\ Ran
    /\ result.fault = "none"
    /\ GetTLSSecret(tls, TRUE).secret # Nil

\* The Upload calls of the pass, as positions in calls.
Uploads == {i \in 1..Len(calls) : calls[i].op = "Upload"}
UploadsTo(t) == {i \in Uploads : calls[i].target = t}

\* The targets ProcessCertificate distributes to under a Spec: configured and
\* not disabled.
Wanted(spec) ==
    {t \in Targets : IF t = "cloudflare"
                       THEN spec.CloudflareSecretRef # "" /\ spec.CloudflareEnabled # Ptr(FALSE)
                       ELSE spec.AWS # Nil}

\* Status fields per target.
UploadedFlag(status, t) ==
    IF t = "cloudflare" THEN status.CloudflareUploaded ELSE status.AWSUploaded
Identifier(status, t) ==
    IF t = "cloudflare" THEN status.CloudflareCertificateID
    ELSE status.AWSCertificateARN

\* The fields of Status that distribution writes.
Distribution(status) ==
    <<status.CloudflareUploaded, status.CloudflareCertificateID,
      status.AWSUploaded, status.AWSCertificateARN,
      status.LastUploadedCertHash, status.LastUploadedTime>>

(***************************************************************************)
(* Claims about CertificateManager (specification Spec)                    *)
(***************************************************************************)
\* The hash recorded before the pass differs from / equals the hash of the
\* certificate bytes the pass read.
HashDiffered == calculateCertHash(tls.crt) # before.LastUploadedCertHash
HashRecorded == cert.Status.LastUploadedCertHash = calculateCertHash(tls.crt)

\* C1 as stated: a pass over bytes whose hash is not the recorded one calls
\* Upload on every configured target, and a further pass over the same bytes
\* (nothing else having changed) calls Upload on none.
C1_Original ==
    /\ Distributed /\ HashDiffered /\ streak = "first"
        => \A t \in Wanted(cert.Spec) : UploadsTo(t) # {}
    /\ Distributed /\ streak = "again" => Uploads = {}

\* C1 amended: hash-gated distribution.  A pass calls Upload exactly on the
\* configured targets when the hash of the bytes differs from the recorded
\* hash, and on no target when it equals it; a pass that ends with an
\* Uploaded flag set records the hash, so that a further pass over the same
\* bytes calls Upload on none.  While no upload has ever succeeded the hash
\* stays unrecorded and every pass uploads again.
C1_HashGated ==
    /\ Distributed /\ HashDiffered
        => /\ \A t \in Wanted(cert.Spec) : UploadsTo(t) # {}
           /\ \A t \in Targets \ Wanted(cert.Spec) : UploadsTo(t) = {}
    /\ Distributed /\ ~HashDiffered => Uploads = {}
    /\ Distributed /\ (cert.Status.CloudflareUploaded \/ cert.Status.AWSUploaded)
        => HashRecorded
    /\ Distributed /\ streak = "again" /\ Uploads # {}
        => /\ ~before.CloudflareUploaded /\ ~before.AWSUploaded
           /\ before.LastUploadedCertHash = ""

\* C1 witness: the first pass over the second certificate, after the first
\* certificate's hash was recorded, uploaded to both targets.
C1_Witness ==
    /\ Distributed
    /\ tls.crt = <<2>>
    /\ before.LastUploadedCertHash = calculateCertHash(<<1>>)
    /\ HashRecorded
    /\ UploadsTo("cloudflare") # {} /\ UploadsTo("aws") # {}

\* C2 as stated: a pass that repeats the pass before it, with nothing changed
\* in between, leaves Status as it was and calls no Upload.
C2_Original ==
    Ran /\ streak = "again" => cert.Status = before /\ Uploads = {}

\* C2 amended: idempotence.  A repeated pass leaves Status as it was; it
\* calls no Upload when the hash of the bytes is the recorded one, and
\* otherwise (no upload has succeeded yet) it repeats the Upload calls, which
\* fail as they did in the pass before.
C2_Idempotent ==
    Ran /\ streak = "again"
        => /\ cert.Status = before
           /\ ~result.changed
           /\ HashRecorded => Uploads = {}
           /\ \A i \in Uploads : ~calls[i].ok

\* C2 witness: a repeated pass over recorded bytes that called no Upload.
C2_Witness ==
    /\ Distributed /\ streak = "again"
    /\ HashRecorded /\ cert.Status.CloudflareUploaded /\ cert.Status.AWSUploaded
    /\ Uploads = {}

\* C3: a pass that finds the hash of the certificate bytes equal to
\* Status.LastUploadedCertHash calls no Upload and leaves every Uploaded flag,
\* identifier, the hash and the timestamp of Status as they were.
C3_EqualHashSkips ==
    Distributed /\ ~HashDiffered
        => Uploads = {} /\ Distribution(cert.Status) = Distribution(before)

\* C3 witness: such a pass, on a resource with both targets configured while
\* the providers would accept an upload.
C3_Witness ==
    /\ Distributed /\ ~HashDiffered
    /\ Wanted(cert.Spec) = Targets
    /\ \A t \in Targets : provider[t] = "ok"

(***************************************************************************)
(* Claims about both orchestrations (specification SpecAll)                *)
(***************************************************************************)
\* The Upload to target t that the pass made failed / succeeded.
UploadFailed(t) == \E i \in UploadsTo(t) : ~calls[i].ok
UploadSucceeded(t) == \E i \in UploadsTo(t) : calls[i].ok

\* C5: partial failure isolation.  After a pass in which the upload to one
\* target failed and the upload to the other succeeded, the succeeding
\* target's Uploaded flag is set and its identifier is the one its Upload
\* returned, and the failing target's flag and identifier are as they were
\* before the pass, whichever target failed.
C5_PartialFailureIsolated ==
    \A t \in Targets : \A u \in Targets \ {t} :
        UploadFailed(t) /\ UploadSucceeded(u)
            => /\ UploadedFlag(after, u)
               /\ Identifier(after, u) # ""
               /\ \E i \in UploadsTo(u) :
                      calls[i].ok /\ calls[i].out = Identifier(after, u)
               /\ UploadedFlag(after, t) = UploadedFlag(before, t)
               /\ Identifier(after, t) = Identifier(before, t)

\* C5 witness: a Reconcile in which the Cloudflare upload succeeded and the
\* AWS upload failed, on a resource that had nothing recorded.
C5_Witness ==
    /\ result.op = "Reconcile"
    /\ UploadFailed("aws") /\ UploadSucceeded("cloudflare")
    /\ ~before.CloudflareUploaded /\ after.CloudflareUploaded
    /\ ~after.AWSUploaded /\ after.AWSCertificateARN = ""

\* C8: no false-positive success flags.  In every reachable state a
\* target's Uploaded flag, in the stored Status and in the Status the last
\* pass held, is true only if an Upload call to that target has returned
\* success in this pass or an earlier one.
C8_NoFalsePositiveFlags ==
    \A t \in Targets :
        (UploadedFlag(cert.Status, t) \/ UploadedFlag(after, t)) => t \in succeeded

\* C8 witness: one target flagged after its upload succeeded while the upload
\* to the other target failed in the same pass and left it unflagged.
C8_Witness ==
    /\ cert.Status.AWSUploaded /\ "aws" \in succeeded
    /\ UploadFailed("cloudflare") /\ ~cert.Status.CloudflareUploaded
    /\ "cloudflare" \notin succeeded

(***************************************************************************)
(* Claims about CertificateManager, continued (specification Spec)         *)
(***************************************************************************)
\* C6 as stated: when Upload to a configured target failed in a pass that
\* reached distribution, the next pass that reaches distribution over the
\* same bytes and Spec calls Upload on that target again, also when the
\* other target's upload succeeded in the failing pass.
C6_FailedTargetRetried ==
    [][\A t \in Targets :
          (Distributed /\ UploadFailed(t) /\ Distributed' /\ streak' = "again")
              => \E i \in 1..Len(calls') :
                     calls'[i].op = "Upload" /\ calls'[i].target = t]_vars

\* C7: a pass that found the hash of the bytes different from the recorded
\* hash and in which at least one Upload succeeded records the hash of the
\* current bytes, sets LastUploadedTime and reports Status as changed.
C7_HashRecordedOnSuccess ==
    (Distributed /\ HashDiffered /\ \E t \in Targets : UploadSucceeded(t))
        => /\ cert.Status.LastUploadedCertHash = calculateCertHash(tls.crt)
           /\ cert.Status.LastUploadedTime # Nil
           /\ Deref(cert.Status.LastUploadedTime) \in Clock(before)
           /\ result.changed

\* C7 witness: the second certificate uploaded to one target of two, after
\* the first certificate had been recorded.
C7_Witness ==
    /\ Distributed /\ HashDiffered
    /\ before.LastUploadedCertHash = calculateCertHash(<<1>>)
    /\ cert.Status.LastUploadedCertHash = calculateCertHash(<<2>>)
    /\ UploadSucceeded("aws") /\ UploadFailed("cloudflare")
    /\ result.changed

(***************************************************************************)
(* Claims about teardown                                                   *)
(***************************************************************************)
\* The most recent step was a Reconcile that took the teardown path.
Teardown ==
    /\ result.op = "Reconcile"
    /\ cert.DeletionTimestamp # Nil
    /\ Len(calls) >= 1 /\ calls[1].op = "Get" /\ calls[1].ok

\* The delete attempts on target t and the successful writes of the resource
\* in the pass, as positions in calls.
DeleteAttempts(t) == CallsOf(calls, "Delete", t)
Updates == {i \in 1..Len(calls) : calls[i].op = "Update" /\ calls[i].ok}

\* ... and that pass removed the finalizer.
FinalizerRemoved ==
    Teardown /\ Updates # {} /\ certificateFinalizer \notin cert.Finalizers

\* C4: finalizer ordering.  When a pass on a resource carrying a deletion
\* timestamp removes the finalizer, a delete of the recorded identifier has
\* been attempted, before the write that removes it, on every target whose
\* identifier in Status is non-empty; and a teardown pass that does not get to
\* that write leaves the finalizer in place.
C4_FinalizerOrdering ==
    /\ FinalizerRemoved
        => \A t \in Targets :
              Identifier(before, t) # ""
                  => \E i \in DeleteAttempts(t) :
                        /\ calls[i].id = Identifier(before, t)
                        /\ \A j \in Updates : i < j
    /\ Teardown /\ Updates = {} => certificateFinalizer \in cert.Finalizers

\* C4 witness: the finalizer removed by a pass that attempted both deletes.
C4_Witness ==
    /\ FinalizerRemoved
    /\ before.AWSCertificateARN # "" /\ before.CloudflareCertificateID # ""
    /\ DeleteAttempts("aws") # {} /\ DeleteAttempts("cloudflare") # {}

\* C9: teardown is best-effort per target.  In a teardown pass a failed
\* delete or a failed credential resolution on one target does not keep the
\* delete of the other target's recorded identifier from being attempted, the
\* finalize step completes and returns no error, and the finalizer is
\* removed in the same pass when the write of the resource succeeds.  The
\* finalize step is finalizeCertificate in a Reconcile and Finalize in
\* CertificateManager.
C9_TeardownBestEffort ==
    /\ Teardown
        => /\ \A t \in Targets :
                 Identifier(before, t) # "" => DeleteAttempts(t) # {}
           /\ result.err => \E i \in 1..Len(calls) :
                                calls[i].op = "Update" /\ ~calls[i].ok
           /\ ~result.err => certificateFinalizer \notin cert.Finalizers
    /\ result.op = "Finalize"
        => /\ ~result.panicked /\ ~result.err
           /\ \A t \in Targets :
                 Identifier(before, t) # "" => DeleteAttempts(t) # {}

\* The part of C9 that concerns Reconcile alone.
C9_ReconcileTeardown == Teardown => C9_TeardownBestEffort

\* A teardown pass of Reconcile whose AWS delete failed and which went on to
\* attempt the Cloudflare delete and removed the finalizer.
C9_ReconcileWitness ==
    /\ FinalizerRemoved
    /\ \E i \in DeleteAttempts("aws") : ~calls[i].ok
    /\ DeleteAttempts("cloudflare") # {}

\* C10: deletion is never blocked indefinitely.  Once the resource carries a
\* deletion timestamp and the finalizer, the finalizer is eventually removed,
\* whatever the cloud targets do, provided a Reconcile that meets no store
\* failure is eventually run.
C10_DeletionCompletes ==
    (cert.present /\ cert.DeletionTimestamp # Nil
        /\ certificateFinalizer \in cert.Finalizers)
    ~> (certificateFinalizer \notin cert.Finalizers)

\* C10 witness: a teardown pass whose deletes failed on both targets and whose
\* write of the resource failed, so that the resource still awaits removal.
C10_Witness ==
    /\ Teardown /\ result.err
    /\ cert.present /\ certificateFinalizer \in cert.Finalizers
    /\ \A t \in Targets : \E i \in DeleteAttempts(t) : ~calls[i].ok

(***************************************************************************)
(* Claims about the forward pass of Reconcile (specification SpecCtrl)     *)
(***************************************************************************)
\* The operations that change something outside the pass: the writes of the
\* issuance objects, the uploads and the write of Status.
Mutations(cs) ==
    {i \in 1..Len(cs) : cs[i].op \in {"CreateOrUpdate", "Upload", "StatusUpdate"}}

\* C11: finalizer first.  A Reconcile that loads a resource with neither
\* deletion timestamp nor finalizer writes the resource with the finalizer
\* added right after loading it, before any issuance object is created or
\* updated, before any Upload and before any write of Status; when that
\* write succeeds the stored resource carries the finalizer, and when it
\* fails the pass returns the error having done none of those and the stored
\* resource is as it was.
C11_FinalizerFirst ==
    [][(/\ orchestration = "controller"
        /\ cert.present /\ cert.DeletionTimestamp = Nil
        /\ certificateFinalizer \notin cert.Finalizers
        /\ result'.op = "Reconcile"
        /\ calls'[1].ok)
       => /\ Len(calls') >= 2
          /\ calls'[2].op = "Update"
          /\ \A i \in Mutations(calls') : i > 2
          /\ calls'[2].ok
               => certificateFinalizer \in cert'.Finalizers
          /\ ~calls'[2].ok
               => /\ result'.err
                  /\ Mutations(calls') = {}
                  /\ cert' = cert]_vars

\* C11 witness: a pass that added the finalizer and went on to create the
\* issuance objects, upload to both targets and write Status.
C11_Witness ==
    /\ result.op = "Reconcile"
    /\ Len(calls) >= 2 /\ calls[2].op = "Update" /\ calls[2].ok
    /\ certificateFinalizer \in cert.Finalizers
    /\ CallsOf(calls, "CreateOrUpdate", Name \o "-issuer") # {}
    /\ UploadsTo("cloudflare") # {} /\ UploadsTo("aws") # {}
    /\ \E i \in 1..Len(calls) : calls[i].op = "StatusUpdate" /\ calls[i].ok

(***************************************************************************)
(* Claims about what a forward pass returns (specification SpecAll)        *)
(***************************************************************************)
\* The most recent step was a forward pass: ProcessCertificate, or a
\* Reconcile of a resource without deletion timestamp.
ForwardPass ==
    \/ result.op = "ProcessCertificate"
    \/ result.op = "Reconcile" /\ cert.DeletionTimestamp = Nil

\* The calls a pass makes to the object store and to the issuance driver.
StoreOps ==
    {"Get", "Update", "CreateOrUpdate", "GetSecret", "StatusUpdate",
     "EnsureCertificate", "GetTLSSecret", "WaitForReadiness"}

\* C12: cloud-provider failures never fail the pass.  A forward pass that
\* returns an error made, as its last call, a call to the object store or to
\* the issuance driver that failed; a failed Upload, whether its credentials
\* did not resolve or its backend refused, leaves the pass without error
\* when none of those calls failed.
C12_CloudFailuresNotFatal ==
    ForwardPass
        => /\ result.err
                => /\ Len(calls) >= 1
                   /\ calls[Len(calls)].op \in StoreOps
                   /\ ~calls[Len(calls)].ok
           /\ (\E t \in Targets : UploadFailed(t))
                /\ (\A i \in 1..Len(calls) :
                        calls[i].op \in StoreOps => calls[i].ok)
                => ~result.err /\ ~result.panicked

\* C12 witness: a Reconcile whose two uploads failed, one for its credentials
\* and one at its backend, and which returned a requeue and no error.
C12_Witness ==
    /\ result.op = "Reconcile" /\ cert.DeletionTimestamp = Nil
    /\ provider["cloudflare"] = "nocred" /\ provider["aws"] = "down"
    /\ UploadFailed("cloudflare") /\ UploadFailed("aws")
    /\ ~result.err /\ result.requeueAfter = RequeueMinute

(***************************************************************************)
(* Claims about a pass that cannot distribute yet                          *)
(***************************************************************************)
\* The most recent step was a forward pass during which the issuance
\* authority or the certificate request was not Ready.
PendingFaults ==
    {f \o "/" \o g : f \in CtrlFaults \cup StoreFaults, g \in Gates \ {"ready"}}
Pending == ForwardPass /\ result.fault \in PendingFaults

\* Status without the issuance references.
OtherThanRefs(status) == [status EXCEPT !.IssuerRef = "", !.CertificateRef = ""]

\* C13 as stated: pending issuance is not an error.  A forward pass during
\* which the issuance authority or the certificate request is not Ready
\* returns no error, calls Upload on no target, changes no Status field other
\* than the issuance references and, in Reconcile, asks for a requeue after 1
\* minute (ProcessCertificate leaves the requeue to WaitForReadiness or to
\* its caller, which is not asserted here).
C13_PendingIssuance ==
    Pending
        => /\ ~result.err
           /\ result.op = "Reconcile" => result.requeueAfter = RequeueMinute
           /\ Uploads = {}
           /\ OtherThanRefs(after) = OtherThanRefs(before)

\* The part of C13 that holds of Reconcile: a pass that finds the Issuer or
\* the Certificate request not Ready uploads nothing and changes only the
\* references; it returns a requeue after 1 minute, or the error of the
\* write of the references to Status when that write fails.
C13_ReconcilePending ==
    Pending /\ result.op = "Reconcile"
        => /\ Uploads = {}
           /\ OtherThanRefs(after) = OtherThanRefs(before)
           /\ ~result.err => result.requeueAfter = RequeueMinute
           /\ result.err => /\ calls[Len(calls)].op = "StatusUpdate"
                            /\ ~calls[Len(calls)].ok

\* A Reconcile that found the Certificate request not Ready, wrote the
\* references and returned a requeue.
C13_ReconcileWitness ==
    /\ Pending /\ result.op = "Reconcile" /\ ~result.err
    /\ before.CertificateRef = "" /\ cert.Status.CertificateRef # ""
    /\ tls.found /\ Len(tls.crt) > 0

\* The most recent step was a forward pass that read the key-material slot
\* and found its certificate or its private key empty.
SlotReads ==
    {i \in 1..Len(calls) : calls[i].op \in {"GetSecret", "GetTLSSecret"}}
EmptySlotPass ==
    /\ ForwardPass
    /\ \E i \in SlotReads : calls[i].ok
    /\ tls.found /\ (Len(tls.crt) = 0 \/ Len(tls.key) = 0)

\* C14 as stated: when the key-material slot exists but its certificate or
\* its private key is empty, the pass ends with no error, no Upload call and
\* a requeue after 1 minute (asserted of Reconcile; the requeue of a pass of
\* CertificateManager is that of its caller).
C14_Original ==
    EmptySlotPass
        => /\ ~result.err
           /\ Uploads = {}
           /\ result.op = "Reconcile" => result.requeueAfter = RequeueMinute

\* C14 amended: when the key-material slot exists but its certificate or its
\* private key is empty, the pass calls no Upload and leaves every
\* distribution field of Status as it was.  Reconcile returns a requeue after
\* 1 minute and no error, unless the write of the issuance references to
\* Status fails, in which case it returns that error; ProcessCertificate
\* returns no error and an empty result.
C14_EmptySlotWaits ==
    EmptySlotPass
        => /\ Uploads = {}
           /\ Distribution(after) = Distribution(before)
           /\ result.op = "Reconcile"
                => /\ ~result.err => result.requeueAfter = RequeueMinute
                   /\ result.err
                        => /\ calls[Len(calls)].op = "StatusUpdate"
                           /\ ~calls[Len(calls)].ok
                           /\ before.CertificateRef = ""
           /\ result.op = "ProcessCertificate"
                => ~result.err /\ result.requeueAfter = 0

\* C14 witness: a Reconcile of a resource with both targets configured and
\* up that found the certificate in the slot and the private key empty.
C14_Witness ==
    /\ EmptySlotPass /\ result.op = "Reconcile"
    /\ Len(tls.crt) > 0 /\ Len(tls.key) = 0
    /\ cert.Spec.CloudflareSecretRef # "" /\ cert.Spec.AWSSecretRef # ""
    /\ cert.Spec.CloudflareEnabled = Nil /\ cert.Spec.AWSEnabled = Nil
    /\ \A t \in Targets : provider[t] = "ok"
    /\ ~result.err /\ result.requeueAfter = RequeueMinute

\* The most recent step was a forward pass whose read of the key-material
\* slot failed: the slot does not exist or the store refused the read.
SlotReadFailed ==
    ForwardPass /\ \E i \in SlotReads : ~calls[i].ok

\* C15 as stated: when the key-material slot cannot be read (it does not
\* exist or the store read fails), the pass returns a reconciliation error to
\* the scheduler instead of a plain requeue.
C15_LookupFailurePropagates ==
    SlotReadFailed => result.err /\ result.requeueAfter = 0

\* What the code does instead: the failed read is dropped.  Reconcile returns
\* a requeue after 1 minute, or the error of the write of the references to
\* Status; ProcessCertificate returns what WaitForReadiness returns, a
\* requeue after 1 minute unless the read of the Certificate request fails.
C15_LookupFailureRequeues ==
    SlotReadFailed
        => /\ Uploads = {}
           /\ ~result.err => result.requeueAfter = RequeueMinute
           /\ result.err
                => /\ calls[Len(calls)].op \in {"StatusUpdate", "WaitForReadiness"}
                   /\ ~calls[Len(calls)].ok

(***************************************************************************)
(* Claims about the credentials of the cloud targets                       *)
(***************************************************************************)
\* The calls that reach a target's backend.
BackendOps(t) ==
    IF t = "cloudflare" THEN {"CreateSSL", "DeleteSSL"}
    ELSE {"ImportCertificate", "DeleteCertificate"}
BackendCalls(t) ==
    {i \in 1..Len(calls) : calls[i].target = t /\ calls[i].op \in BackendOps(t)}

\* The calls of a driver's Upload or Delete on target t, and whether call i
\* went on to the backend: the next call is a backend call of the target.
DriverCalls(t) ==
    {i \in 1..Len(calls) : calls[i].target = t /\ calls[i].op \in {"Upload", "Delete"}}
ReachedBackend(i) ==
    \E j \in BackendCalls(calls[i].target) :
        j > i /\ \A k \in (i + 1)..(j - 1) : k \in BackendCalls(calls[i].target)

LacksRequired(t) ==
    IF t = "cloudflare" THEN {"notoken"} ELSE {"nokeyid", "nosecretkey"}

\* C17: incomplete credentials stop the call before the backend.  When the
\* secret a driver is configured with lacks a required key (api-token for
\* Cloudflare; access-key-id or secret-access-key for AWS), its Upload and
\* its Delete return an error and make no create, import or delete call to
\* the backend; when the AWS secret lacks only region, Upload and Delete go
\* on to the backend.
C17_IncompleteCredentialsStop ==
    \A t \in Targets :
        /\ SecretRefOf(cert.Spec, t) # "" /\ provider[t] \in LacksRequired(t)
            => /\ BackendCalls(t) = {}
               /\ \A i \in DriverCalls(t) : ~calls[i].ok
               /\ DriverCalls(t) # {} => result.err
        /\ t = "aws" /\ SecretRefOf(cert.Spec, t) # "" /\ provider[t] = "noregion"
            => \A i \in DriverCalls(t) : ReachedBackend(i)

\* C17 witness: an Upload of the AWS driver, configured with a secret that
\* holds access-key-id and lacks secret-access-key, returned an error.
C17_Witness ==
    /\ result.op = "Upload" /\ result.err
    /\ SecretRefOf(cert.Spec, "aws") # "" /\ provider["aws"] = "nosecretkey"
    /\ UploadsTo("aws") # {} /\ BackendCalls("aws") = {}

(***************************************************************************)
(* Claims about the enable flags (specification SpecAll)                   *)
(***************************************************************************)
\* The enable flag of target t: CloudflareEnabled, AWSEnabled.
EnableFlag(spec, t) ==
    IF t = "cloudflare" THEN spec.CloudflareEnabled ELSE spec.AWSEnabled

\* The most recent step was a forward pass that read the key material and
\* found certificate and private key in it.
ReachedDistribution ==
    /\ ForwardPass
    /\ \E i \in SlotReads : calls[i].ok
    /\ Len(tls.crt) > 0 /\ Len(tls.key) > 0

\* Target t is configured and, its enable flag apart, due for an upload in
\* the pass: for CertificateManager the hash of the bytes is not the recorded
\* one, for Reconcile the target's Uploaded flag is not set.
Due(t) ==
    IF result.op = "ProcessCertificate"
      THEN /\ HashDiffered
           /\ IF t = "cloudflare" THEN cert.Spec.CloudflareSecretRef # ""
              ELSE cert.Spec.AWS # Nil
      ELSE /\ ~UploadedFlag(before, t)
           /\ IF t = "cloudflare" THEN cert.Spec.CloudflareSecretRef # ""
              ELSE cert.Spec.AWSSecretRef # ""

CloudflareUploadRan ==
    /\ result.op = "Upload"
    /\ UploadsTo("cloudflare") # {}
    /\ getCloudflareClient(SecretRefOf(cert.Spec, "cloudflare"),
                           provider["cloudflare"])

\* C19: Cloudflare renewal order.  An Upload of the Cloudflare driver that
\* is given a non-empty existing identifier calls DeleteSSL on exactly that
\* identifier and then CreateSSL, whether DeleteSSL succeeded or failed, and
\* the result of the Upload is that of CreateSSL; given an empty existing
\* identifier it calls CreateSSL and no DeleteSSL.
C19_CloudflareRenewalOrder ==
    CloudflareUploadRan
        => /\ calls[1].op = "Upload"
           /\ IF calls[1].id # ""
                THEN /\ Len(calls) = 3
                     /\ calls[2].op = "DeleteSSL" /\ calls[2].id = calls[1].id
                     /\ calls[3].op = "CreateSSL"
                ELSE /\ Len(calls) = 2
                     /\ calls[2].op = "CreateSSL"
           /\ calls[1].ok = calls[Len(calls)].ok
           /\ calls[1].out = calls[Len(calls)].out

\* C19 witness: an Upload with an existing identifier whose DeleteSSL failed
\* and whose CreateSSL succeeded and returned a new identifier.
C19_Witness ==
    /\ CloudflareUploadRan
    /\ calls[1].id # ""
    /\ Len(calls) = 3 /\ ~calls[2].ok /\ calls[3].ok
    /\ calls[1].ok /\ calls[1].out \notin {"", calls[1].id}

\* C20: AWS renewal reuses the identifier.  Every Upload of a pass to AWS is
\* given the ARN Status recorded when the pass started, and none when none
\* was recorded; the import call is made with that same ARN and a successful
\* import under a recorded ARN leaves that ARN recorded.  Every Upload to
\* Cloudflare is given the Cloudflare identifier Status recorded; the
\* identifiers recorded for one target are never those of the other.
C20_AWSIdentifierReused ==
    /\ Ran
        => /\ \A i \in UploadsTo("aws") :
                 /\ calls[i].id = before.AWSCertificateARN
                 /\ i < Len(calls) /\ calls[i + 1].op = "ImportCertificate"
                       => calls[i + 1].id = before.AWSCertificateARN
                 /\ calls[i].ok /\ before.AWSCertificateARN # ""
                       => /\ calls[i].out = before.AWSCertificateARN
                          /\ cert.Status.AWSCertificateARN = before.AWSCertificateARN
           /\ \A i \in UploadsTo("cloudflare") :
                 calls[i].id = before.CloudflareCertificateID
    /\ \A t \in Targets :
          /\ Identifier(cert.Status, t) \in IDs(t)
          /\ \A i \in 1..Len(calls) :
                calls[i].target = t => calls[i].id \in IDs(t) /\ calls[i].out \in IDs(t)

\* C20 witness: the second certificate imported under the ARN recorded for
\* the first, in a pass that also replaced the Cloudflare certificate.
C20_Witness ==
    /\ Distributed /\ tls.crt = <<2>>
    /\ before.AWSCertificateARN = AWSARN(1)
    /\ \E i \in UploadsTo("aws") :
          calls[i].id = AWSARN(1) /\ calls[i].ok /\ calls[i].out = AWSARN(1)
    /\ before.CloudflareCertificateID = CloudflareID(1)
    /\ \E i \in UploadsTo("cloudflare") :
          calls[i].id = CloudflareID(1) /\ calls[i].out = CloudflareID(2)

(***************************************************************************)
(* Claims about the persistence of Status (specification SpecCtrl)         *)
(***************************************************************************)
\* The most recent step was a Reconcile that loaded a resource without
\* deletion timestamp.
ForwardReconcile ==
    /\ result.op = "Reconcile"
    /\ cert.DeletionTimestamp = Nil
    /\ Len(calls) >= 1 /\ calls[1].op = "Get" /\ calls[1].ok

\* The writes of Status the pass made, as positions in calls.
StatusWrites == {i \in 1..Len(calls) : calls[i].op = "StatusUpdate"}

\* C21: Status is persisted if and only if it changed.  A forward pass of
\* Reconcile writes Status to the store, once, exactly when the Status its
\* copy of the resource holds at the end differs from the Status it loaded;
\* a successful write leaves that Status in the store; a failed write is the
\* last call of the pass, which returns the error and leaves the stored
\* Status as it was; without a write the stored Status is as it was.
C21_StatusPersistedIffChanged ==
    ForwardReconcile
        => /\ StatusWrites # {} <=> after # before
           /\ Cardinality(StatusWrites) <= 1
           /\ \A i \in StatusWrites :
                 /\ i = Len(calls)
                 /\ calls[i].ok => ~result.err /\ cert.Status = after
                 /\ ~calls[i].ok
                      => /\ result.err /\ result.requeueAfter = 0
                         /\ cert.Status = before
           /\ StatusWrites = {} => cert.Status = before

\* C21 witness: a pass whose AWS upload succeeded and whose write of Status
\* failed: it returned the error and the store holds the Status it loaded.
C21_Witness ==
    /\ ForwardReconcile
    /\ UploadSucceeded("aws") /\ after.AWSUploaded /\ ~before.AWSUploaded
    /\ \E i \in StatusWrites : ~calls[i].ok
    /\ result.err /\ cert.Status = before

(***************************************************************************)
(* Claims about two resources (specification SpecPair)                     *)
(***************************************************************************)
\* The calls of a pass that go to the drivers of the cloud targets.
ToTarget(c) == c.target \in Targets
DriverCallsIn(cs) == SelectSeq(cs, ToTarget)

\* C22 as stated: independence across resources.  Whatever the passes of a
\* second resource with a different key have done in between, a pass of
\* Reconcile leaves the resource with the Status, and makes the sequence of
\* driver calls, that the same pass makes when the resource is alone: those
\* of reconcile over the resource's own state, the store failing and the
\* issuance objects being Ready or not as in the pass.
C22_IndependentResources ==
    [][\A f \in CtrlFaults, g \in Gates :
          (result'.op = "Reconcile" /\ result'.fault = f \o "/" \o g)
              => \E alone \in {reconcile(cert, f, g, tls, provider)} :
                    /\ cert'.Status = alone.cert.Status
                    /\ after' = alone.status
                    /\ DriverCallsIn(calls') = DriverCallsIn(alone.calls)]_vars

(***************************************************************************)
(* Claims about the kubernetes driver (specification SpecIssuance)         *)
(***************************************************************************)
\* C23: GetTLSSecret distinguishes three outcomes.  It returns an error and
\* no bundle when the slot does not exist or cannot be read; no bundle and no
\* error when the slot is read and tls.crt or tls.key is empty; and, when
\* both are non-empty, no error and a bundle holding exactly the slot's
\* certificate and key bytes.
C23_GetTLSSecretOutcomes ==
    result.op = "GetTLSSecret"
        => IF ~tls.found \/ result.fault = "read"
             THEN result.err /\ result.secret = Nil /\ ~calls[1].ok
           ELSE IF Len(tls.crt) = 0 \/ Len(tls.key) = 0
             THEN ~result.err /\ result.secret = Nil
           ELSE /\ ~result.err
                /\ result.secret # Nil
                /\ Deref(result.secret).Certificate = tls.crt
                /\ Deref(result.secret).PrivateKey = tls.key

\* C23 witness: a call on a slot that holds a certificate and an empty key
\* returned neither a bundle nor an error.
C23_Witness ==
    /\ result.op = "GetTLSSecret"
    /\ tls.found /\ tls.crt = <<1>> /\ Len(tls.key) = 0
    /\ ~result.err /\ result.secret = Nil

\* C24: readiness check.  When the Certificate request is read and has no
\* Ready=True condition, WaitForReadiness returns a requeue after exactly one
\* minute and no error, on the first pending call and on every repeated one
\* (no backoff); it returns an error, and then no requeue, exactly when the
\* request cannot be read.
C24_ReadinessCheck ==
    result.op = "WaitForReadiness"
        => /\ result.err <=> result.fault = "request"
           /\ result.err <=> ~calls[1].ok
           /\ result.err => result.requeueAfter = 0
           /\ result.fault = Met("none", "cert")
                => /\ ~result.err
                   /\ result.requeueAfter = RequeueMinute
                   /\ streak \in {"first", "again"}

\* C24 witness: a call that found the request not Ready, repeating a call
\* that had found the same, returned the same one-minute requeue.
C24_Witness ==
    /\ result.op = "WaitForReadiness"
    /\ result.fault = Met("none", "cert")
    /\ streak = "again"
    /\ ~result.err /\ result.requeueAfter = RequeueMinute

(***************************************************************************)
(* Claims about the order of a pass                                        *)
(***************************************************************************)
\* The successful upserts of the certificate request and the successful
\* reads of the key-material slot in the pass, as positions in calls.
RequestEnsured ==
    {i \in 1..Len(calls) :
        /\ calls[i].op \in {"EnsureCertificate", "CreateOrUpdate"}
        /\ calls[i].target = Name \o "-cert"
        /\ calls[i].ok}
SlotFetched == {i \in SlotReads : calls[i].ok}

\* The most recent step was a forward pass during which the certificate
\* request was not Ready.
RequestPending ==
    ForwardPass /\ result.fault \in {f \o "/cert" : f \in CtrlFaults \cup StoreFaults}

\* The order of the steps before distribution, in a pass that uploaded.
UploadsInOrder ==
    \A u \in Uploads :
        /\ \E i \in RequestEnsured : i < u
        /\ \E i \in SlotFetched : i < u
        /\ Len(tls.crt) > 0 /\ Len(tls.key) > 0

\* C25 as stated: state-machine order within a pass.  Upload is called on a
\* target only after, in that same pass, the certificate request was ensured
\* and key material with non-empty certificate and key was fetched, and only
\* in a pass during which the issuance is Ready: no pass uploads while the
\* request is not Ready.
C25_StateMachineOrder ==
    ForwardPass => UploadsInOrder /\ (RequestPending => Uploads = {})

\* The part of C25 that holds of both orchestrations: the request is ensured
\* and the key material fetched before any Upload of the pass; and a
\* Reconcile that finds the Issuer or the request not Ready uploads nothing.
C25_EnsuredAndFetchedFirst ==
    ForwardPass
        => /\ UploadsInOrder
           /\ result.op = "Reconcile" /\ Pending => Uploads = {}

(***************************************************************************)
(* Claims about what Reconcile returns (specification SpecCtrl)            *)
(***************************************************************************)
\* The most recent step was a Reconcile that found the resource gone.
GonePass ==
    /\ result.op = "Reconcile"
    /\ Len(calls) = 1 /\ calls[1].op = "Get" /\ ~calls[1].ok
    /\ calls[1].out = "NotFound"

\* C26 as stated: every forward pass of Reconcile that completes without
\* error returns a requeue after 1 minute, including the steady state where
\* nothing changed; a pass on a resource that no longer exists, and a
\* teardown pass, return no requeue and no error.
C26_Original ==
    /\ ForwardReconcile /\ ~result.err => result.requeueAfter = RequeueMinute
    /\ GonePass => result.requeueAfter = 0 /\ ~result.err
    /\ Teardown => result.requeueAfter = 0 /\ ~result.err

\* C26 amended: every forward pass of Reconcile that completes without error
\* returns a requeue after 1 minute, including the steady state where nothing
\* changed; a pass on a resource that no longer exists returns no requeue and
\* no error; a teardown pass returns no requeue, and no error unless its
\* write of the resource without the finalizer fails, in which case it
\* returns that error.
C26_RequeueEveryMinute ==
    /\ ForwardReconcile /\ ~result.err => result.requeueAfter = RequeueMinute
    /\ GonePass => result.requeueAfter = 0 /\ ~result.err
    /\ Teardown
        => /\ result.requeueAfter = 0
           /\ result.err
                => /\ calls[Len(calls)].op = "Update"
                   /\ ~calls[Len(calls)].ok
                   /\ certificateFinalizer \in cert.Finalizers

\* C26 witness: the steady state.  A forward pass on a resource whose two
\* targets are uploaded changed nothing, called no Upload, wrote nothing and
\* returned a requeue after 1 minute.
C26_Witness ==
    /\ ForwardReconcile /\ ~result.err
    /\ before.CloudflareUploaded /\ before.AWSUploaded
    /\ after = before /\ Uploads = {} /\ StatusWrites = {}
    /\ result.requeueAfter = RequeueMinute

(***************************************************************************)
(* Claims about the teardown path (specification SpecTeardown)             *)
(***************************************************************************)
\* C27: the teardown path is exclusive.  A Reconcile that loads a resource
\* carrying a deletion timestamp creates or updates no issuance object,
\* calls Upload on no target, writes no Status and leaves Spec and Status as
\* they were; if the resource no longer carries certificateFinalizer the pass
\* also calls no delete, writes nothing and returns no error.
C27_TeardownExclusive ==
    [][(/\ orchestration = "controller"
        /\ cert.present /\ cert.DeletionTimestamp # Nil
        /\ result'.op = "Reconcile"
        /\ calls'[1].ok)
       => /\ \A i \in 1..Len(calls') :
                calls'[i].op \notin {"CreateOrUpdate", "Upload", "StatusUpdate",
                                     "GetSecret"}
          /\ cert'.Status = cert.Status /\ cert'.Spec = cert.Spec
          /\ after' = cert.Status
          /\ certificateFinalizer \notin cert.Finalizers
               => /\ Len(calls') = 1
                  /\ cert' = cert
                  /\ ~result'.err /\ result'.requeueAfter = 0]_vars

\* C27 witness: a teardown pass on a resource that has both identifiers
\* recorded and no longer carries certificateFinalizer: it loaded the
\* resource and did nothing else.
C27_Witness ==
    /\ Teardown /\ cert.present
    /\ certificateFinalizer \notin cert.Finalizers
    /\ before.AWSCertificateARN # "" /\ before.CloudflareCertificateID # ""
    /\ Len(calls) = 1 /\ ~result.err

\* The most recent step ran a finalize step: Finalize of CertificateManager,
\* or a teardown pass of Reconcile on a resource that carried
\* certificateFinalizer when the pass loaded it.
FinalizeStep ==
    \/ result.op = "Finalize"
    \/ Teardown /\ (Updates # {} \/ certificateFinalizer \in cert.Finalizers)

\* Delete was called on the targets whose identifier is recorded and on no
\* other, once, with the recorded identifier.
DeletesRecorded ==
    \A t \in Targets :
        /\ DeleteAttempts(t) # {} <=> Identifier(before, t) # ""
        /\ Cardinality(DeleteAttempts(t)) <= 1
        /\ \A i \in DeleteAttempts(t) : calls[i].id = Identifier(before, t)

\* C28 as stated: teardown deletes exactly what is recorded.  The finalize
\* step calls delete on a target if and only if that target's identifier in
\* Status is non-empty, passes exactly the recorded identifier, and makes at
\* most one delete call per target per teardown pass.
C28_DeletesExactlyRecorded == FinalizeStep => DeletesRecorded

\* The part of C28 that concerns Reconcile alone: it holds of
\* finalizeCertificate.
C28_ReconcileDeletesRecorded == FinalizeStep /\ Teardown => DeletesRecorded

\* A teardown pass of Reconcile with only the Cloudflare identifier recorded:
\* one delete, of that identifier, and none on AWS.
C28_ReconcileWitness ==
    /\ FinalizeStep /\ Teardown
    /\ before.CloudflareCertificateID # "" /\ before.AWSCertificateARN = ""
    /\ Cardinality(DeleteAttempts("cloudflare")) = 1
    /\ DeleteAttempts("aws") = {}

(***************************************************************************)
(* Claims about who writes what                                            *)
(***************************************************************************)
\* The calls of the pass that write the Certificate resource or its Status
\* to the object store, as positions in calls.
ResourceWrites ==
    {i \in 1..Len(calls) :
        calls[i].op \in {"Update", "StatusUpdate"} /\ calls[i].target = Name}

\* C29: the manager does not persist.  A pass of ProcessCertificate or of
\* Finalize makes no write of the Certificate resource or of its Status to
\* the object store; ProcessCertificate changes Status on the resource it
\* was handed and returns changed = true whenever a Status field holds
\* another value than before the pass; Finalize changes no Status field.
C29_ManagerDoesNotPersist ==
    /\ result.op \in {"ProcessCertificate", "Finalize"} => ResourceWrites = {}
    /\ result.op = "ProcessCertificate" /\ cert.Status # before => result.changed
    /\ result.op = "Finalize" => cert.Status = before /\ ~result.changed

\* C29 witness: a pass whose uploads failed and which recorded the hash of
\* new bytes for a target uploaded earlier: Status changed, the pass wrote
\* nothing to the store and returned changed = true.
C29_Witness ==
    /\ Distributed
    /\ Uploads # {} /\ \A i \in Uploads : ~calls[i].ok
    /\ cert.Status.LastUploadedCertHash # before.LastUploadedCertHash
    /\ ResourceWrites = {}
    /\ result.changed

(***************************************************************************)
(* Specification SpecApi: a resource created and updated through the REST  *)
(* API's CertificateHandler and reconciled by either orchestration         *)
(***************************************************************************)
\* The store before the resource is created.
NoCertificate ==
    [Certificate(CertificateSpec("", "", Nil, Nil, "", Nil)) EXCEPT !.present = FALSE]

\* The calls of a handler are recorded in `calls` as those of a pass are;
\* a handler is no pass: result is NoResult and the streak is broken.
HandlerHistory(cs) ==
    /\ streak' = "none"
    /\ calls' = cs
    /\ result' = NoResult
    /\ before' = ZeroStatus
    /\ after' = ZeroStatus
    /\ UNCHANGED <<succeeded, orchestration, issuers, records, server>>

\* CreateCertificateRequest / UpdateCertificateRequest (Name and Namespace
\* of the one resource are fixed).
CertificateRequest(domain, clusterIssuer, cfRef, cfZone, cfEnabled, awsRef, awsEnabled) ==
    [Domain |-> domain, ClusterIssuerName |-> clusterIssuer,
     CloudflareSecretRef |-> cfRef, CloudflareZoneID |-> cfZone,
     CloudflareEnabled |-> cfEnabled,
     AWSSecretRef |-> awsRef, AWSEnabled |-> awsEnabled]

\* Domain is binding:"required": a request without it is answered 400.
CreateRequests ==
    {CertificateRequest(d, "", cf[1], "zone-1", cf[2], aws, Nil) :
        d \in {"", "example.com"},
        cf \in Settings("cloudflare-credentials"),
        aws \in {"", "aws-credentials"}}

UpdateRequests ==
    {CertificateRequest("", ci, cf, "", cfEnabled, aws, Nil) :
        ci \in {"", "letsencrypt-staging"},
        cf \in {"", "cloudflare-credentials"}, cfEnabled \in {Nil, Ptr(FALSE)},
        aws \in {"", "aws-credentials"}}

HandlerFaults == {"none", "get", "store"}

\* CertificateHandler.CreateCertificate: bind the request, build the object
\* from it (ObjectMeta and Spec only) and Create it.  Create fails when the
\* object exists or the store refuses.
CreateCertificate(req, fault) ==
    LET bound == req.Domain # ""
        obj == [present |-> TRUE,
                Spec |-> [Domain |-> req.Domain, Email |-> "",
                          ClusterIssuerName |-> req.ClusterIssuerName,
                          IssuerName |-> "", IngressClassName |-> "",
                          CloudflareSecretRef |-> req.CloudflareSecretRef,
                          CloudflareZoneID |-> req.CloudflareZoneID,
                          CloudflareEnabled |-> req.CloudflareEnabled,
                          AWS |-> Nil,
                          AWSSecretRef |-> req.AWSSecretRef,
                          AWSEnabled |-> req.AWSEnabled],
                Status |-> ZeroStatus,
                Finalizers |-> {}, DeletionTimestamp |-> Nil]
        created == bound /\ ~cert.present /\ fault # "store"
    IN  /\ cert' = IF created THEN obj ELSE cert
        /\ HandlerHistory(IF bound THEN <<Ev("Create", Name, "", "", created)>>
                                   ELSE <<>>)
        /\ UNCHANGED <<tls, provider>>

\* UpdateCertificate with a handler that builds the object anew from the
\* request, as CreateCertificate does, instead of changing the one it read.
UpdateCertificateAnew(req, fault) ==
    LET found == cert.present /\ fault # "get"
        obj == [cert EXCEPT
                   !.Spec.Domain =
                       IF req.Domain # "" THEN req.Domain ELSE @,
                   !.Spec.ClusterIssuerName =
                       IF req.ClusterIssuerName # "" THEN req.ClusterIssuerName ELSE @,
                   !.Spec.CloudflareSecretRef =
                       IF req.CloudflareSecretRef # "" THEN req.CloudflareSecretRef ELSE @,
                   !.Spec.CloudflareZoneID =
                       IF req.CloudflareZoneID # "" THEN req.CloudflareZoneID ELSE @,
                   !.Spec.CloudflareEnabled =
                       IF req.CloudflareEnabled # Nil THEN req.CloudflareEnabled ELSE @,
                   !.Spec.AWSSecretRef =
                       IF req.AWSSecretRef # "" THEN req.AWSSecretRef ELSE @,
                   !.Spec.AWSEnabled =
                       IF req.AWSEnabled # Nil THEN req.AWSEnabled ELSE @,
                   !.Status = ZeroStatus]
        updated == found /\ fault # "store"
    IN  /\ cert' = IF updated THEN obj ELSE cert
        /\ HandlerHistory(<<Ev("Get", Name, "", "", found)>> \o
                          (IF found THEN <<Ev("Update", Name, "", "", updated)>>
                                    ELSE <<>>))
        /\ UNCHANGED <<tls, provider>>

\* CertificateHandler.UpdateCertificate: Get the object, set each Spec field
\* the request provides (a non-empty string, a non-nil *bool) and Update it.
UpdateCertificate(req, fault) ==
    LET found == cert.present /\ fault # "get"
        obj == [cert EXCEPT
                   !.Spec.Domain =
                       IF req.Domain # "" THEN req.Domain ELSE @,
                   !.Spec.ClusterIssuerName =
                       IF req.ClusterIssuerName # "" THEN req.ClusterIssuerName ELSE @,
                   !.Spec.CloudflareSecretRef =
                       IF req.CloudflareSecretRef # "" THEN req.CloudflareSecretRef ELSE @,
                   !.Spec.CloudflareZoneID =
                       IF req.CloudflareZoneID # "" THEN req.CloudflareZoneID ELSE @,
                   !.Spec.CloudflareEnabled =
                       IF req.CloudflareEnabled # Nil THEN req.CloudflareEnabled ELSE @,
                   !.Spec.AWSSecretRef =
                       IF req.AWSSecretRef # "" THEN req.AWSSecretRef ELSE @,
                   !.Spec.AWSEnabled =
                       IF req.AWSEnabled # Nil THEN req.AWSEnabled ELSE @]
        updated == found /\ fault # "store"
    IN  /\ cert' = IF updated THEN obj ELSE cert
        /\ HandlerHistory(<<Ev("Get", Name, "", "", found)>> \o
                          (IF found THEN <<Ev("Update", Name, "", "", updated)>>
                                    ELSE <<>>))
        /\ UNCHANGED <<tls, provider>>

InitApi ==
    /\ orchestration \in {"manager", "controller"}
    /\ cert = NoCertificate
    /\ EnvInit

ApiCreate == \E req \in CreateRequests, fault \in HandlerFaults : CreateCertificate(req, fault)

ApiUpdate == \E req \in UpdateRequests, fault \in HandlerFaults : UpdateCertificate(req, fault)

NextApi ==
    ApiCreate \/ ApiUpdate \/ Process \/ Finalize \/ Pass \/ Issue \/ DeleteResource

SpecApi == InitApi /\ [][NextApi]_vars

(***************************************************************************)
(* C30: Spec and Status have separate writers                              *)
(***************************************************************************)
\* The step is a pass of either orchestration (ProcessCertificate, Finalize
\* or Reconcile, forward or teardown).
PassStep == result'.op # "none"

\* The step is a call of CreateCertificate / UpdateCertificate that reached
\* the store.
CreateStep == result'.op = "none" /\ Len(calls') >= 1 /\ calls'[1].op = "Create"
UpdateStep == result'.op = "none" /\ Len(calls') >= 1 /\ calls'[1].op = "Get"

\* C30: no reconciliation pass, forward or teardown, changes a Spec field of
\* the resource; CreateCertificate stores a resource whose Status fields are
\* all zero values and UpdateCertificate leaves every Status field as it was
\* (a handler call that fails changes nothing at all).
C30_SeparateWriters ==
    [][/\ PassStep => cert'.Spec = cert.Spec
       /\ CreateStep => IF calls'[1].ok THEN cert'.Status = ZeroStatus
                                        ELSE cert' = cert
       /\ UpdateStep => /\ cert'.Status = cert.Status
                        /\ calls'[Len(calls')].ok \/ cert' = cert]_vars

\* C30 witness: UpdateCertificate has changed the Spec of a resource whose
\* Status a pass had written.
C30_Witness ==
    /\ result = NoResult
    /\ Len(calls) = 2 /\ calls[2].op = "Update" /\ calls[2].ok
    /\ cert.Spec.ClusterIssuerName = "letsencrypt-staging"
    /\ cert.Status.CloudflareUploaded
    /\ cert.Status.LastUploadedTime # Nil

\* The passes of the specifications without a handler keep the Spec too.
C30_PassesKeepSpec == [][PassStep => cert'.Spec = cert.Spec]_vars

(***************************************************************************)
(* C31: the issuance objects are owned by the resource                     *)
(***************************************************************************)
\* The creations and updates of issuance objects the most recent pass made,
\* as positions in calls.
Upserts ==
    {i \in 1..Len(calls) :
        calls[i].op \in {"EnsureCertificate", "CreateOrUpdate"} /\ calls[i].ok}

\* The issuance objects of the resource: its Issuer and its request.
IssuanceObjects == IssuerNames \cup {Name \o "-cert"}

\* The object written by call i names the resource as its controller.
ControlledByResource(i) ==
    \E k \in 1..Len(calls[i].OwnerReferences) :
        LET ref == calls[i].OwnerReferences[k]
        IN  ref.Kind = "Certificate" /\ ref.Name = Name /\ ref.Controller

\* The most recent pass was a teardown: Finalize, or Reconcile on a resource
\* carrying a deletion timestamp.
TeardownPass == result.op = "Finalize" \/ Teardown

\* C31: every Issuer and Certificate request a pass creates or updates
\* carries a controller owner reference to the Certificate resource being
\* reconciled, and a teardown pass makes no call on those objects: it
\* deletes none of them.
C31_IssuanceObjectsOwned ==
    /\ \A i \in Upserts : ControlledByResource(i)
    /\ TeardownPass =>
         \A i \in 1..Len(calls) :
            /\ calls[i].target \notin IssuanceObjects
            /\ calls[i].op \in {"Delete", "DeleteSSL", "DeleteCertificate"}
                 => calls[i].target \in Targets

\* C31 witness: a pass of Reconcile created or updated the Issuer and the
\* Certificate request.
C31_Witness ==
    /\ result.op = "Reconcile"
    /\ \E i, j \in Upserts :
        /\ calls[i].target = Name \o "-issuer"
        /\ calls[j].target = Name \o "-cert"
        /\ ControlledByResource(i) /\ ControlledByResource(j)

\* ... and so did a pass of ProcessCertificate with the request; a teardown
\* pass deleted a cloud record and nothing else.
C31_ManagerWitness ==
    /\ result.op = "ProcessCertificate"
    /\ \E i \in Upserts : ControlledByResource(i)

C31_TeardownWitness ==
    /\ TeardownPass
    /\ \E i \in 1..Len(calls) : calls[i].op = "Delete" /\ calls[i].ok

(***************************************************************************)
(* Specification SpecDefaults: resources whose Spec names, or leaves out, *)
(* the issuing authority and the ingress class, driven by either           *)
(* orchestration                                                           *)
(***************************************************************************)
DefaultsSpecs ==
    {[CertificateSpec("cloudflare-credentials", "zone-1", Nil, Nil, "", Nil)
        EXCEPT !.ClusterIssuerName = ci, !.IssuerName = n,
               !.IngressClassName = class] :
        ci \in {"", "letsencrypt-staging"}, n \in {"", "shared-issuer"},
        class \in {"", "traefik"}}

InitDefaults ==
    /\ orchestration \in {"manager", "controller"}
    /\ cert \in {Certificate(spec) : spec \in DefaultsSpecs}
    /\ EnvInit

NextDefaults == Process \/ Pass \/ Issue \/ DeleteResource

SpecDefaults == InitDefaults /\ [][NextDefaults]_vars

(***************************************************************************)
(* C32: the defaults of the issuing authority and of the ingress class     *)
(***************************************************************************)
\* The successful creations and updates of the Certificate request and of
\* the Issuer in the most recent pass.
RequestUpserts == {i \in Upserts : calls[i].target = Name \o "-cert"}
IssuerUpserts == Upserts \ RequestUpserts

\* The issuing authority the Spec names for the orchestration that ran the
\* pass: ClusterIssuerName for CertificateManager, IssuerName for
\* CertificateReconciler.
NamedAuthority ==
    IF result.op = "ProcessCertificate" THEN cert.Spec.ClusterIssuerName
    ELSE cert.Spec.IssuerName

\* C32: the Certificate request a pass creates or updates references the
\* authority letsencrypt-prod when the Spec names none and the authority the
\* Spec names otherwise; the Issuer a pass creates or updates solves with
\* the ingress class nginx when the Spec gives none.
C32_Defaults ==
    /\ \A i \in RequestUpserts :
        calls[i].IssuerRef.Name =
            IF NamedAuthority = "" THEN "letsencrypt-prod" ELSE NamedAuthority
    /\ \A i \in IssuerUpserts :
        cert.Spec.IngressClassName = "" => calls[i].Class = "nginx"

\* What holds: under CertificateManager the request references the
\* ClusterIssuer letsencrypt-prod or the one named; under
\* CertificateReconciler a named Issuer is referenced as named, the class is
\* nginx or the one given, and the default Issuer is <Name>-issuer.
C32_ManagerDefault ==
    result.op = "ProcessCertificate" =>
        \A i \in RequestUpserts :
            calls[i].IssuerRef =
                ObjectReference(IF cert.Spec.ClusterIssuerName = ""
                                  THEN "letsencrypt-prod"
                                  ELSE cert.Spec.ClusterIssuerName,
                                "ClusterIssuer")

C32_ReconcilerDefault ==
    result.op = "Reconcile" =>
        /\ \A i \in RequestUpserts :
            calls[i].IssuerRef =
                ObjectReference(IF cert.Spec.IssuerName = ""
                                  THEN Name \o "-issuer"
                                  ELSE cert.Spec.IssuerName,
                                "Issuer")
        /\ \A i \in IssuerUpserts :
            calls[i].Class = IF cert.Spec.IngressClassName = "" THEN "nginx"
                             ELSE cert.Spec.IngressClassName

C32_ManagerWitness ==
    /\ result.op = "ProcessCertificate"
    /\ RequestUpserts # {}
    /\ cert.Spec.ClusterIssuerName = ""

C32_ReconcilerWitness ==
    /\ result.op = "Reconcile"
    /\ RequestUpserts # {} /\ IssuerUpserts # {}
    /\ cert.Spec.IssuerName # "" /\ cert.Spec.IngressClassName = ""

(***************************************************************************)
(* C33: the recorded hash is truthful                                      *)
(***************************************************************************)
\* The most recent pass of ProcessCertificate changed the recorded hash /
\* the recorded time.
HashWritten == Ran /\ after.LastUploadedCertHash # before.LastUploadedCertHash
TimeWritten == Ran /\ after.LastUploadedTime # before.LastUploadedTime

\* Every Upload the pass attempted failed.
AllUploadsFailed == Ran /\ Uploads # {} /\ \A i \in Uploads : ~calls[i].ok

\* C33: when a pass of ProcessCertificate writes a hash H to
\* Status.LastUploadedCertHash, H is the hash of the bytes the pass read and
\* the Upload of those bytes to at least one target succeeded in that pass;
\* a pass in which every attempted Upload failed changes neither the
\* recorded hash nor the recorded time, also when an Uploaded flag is true
\* from an earlier certificate.
C33_RecordedHashTruthful ==
    /\ HashWritten =>
        /\ after.LastUploadedCertHash = calculateCertHash(tls.crt)
        /\ \E t \in Targets : UploadSucceeded(t)
    /\ AllUploadsFailed => ~HashWritten /\ ~TimeWritten

\* What holds: a pass that starts with no Uploaded flag set records the hash
\* only after a successful Upload of the bytes it read.
C33_TruthfulWithoutFlags ==
    (HashWritten /\ ~before.CloudflareUploaded /\ ~before.AWSUploaded) =>
        /\ after.LastUploadedCertHash = calculateCertHash(tls.crt)
        /\ \E t \in Targets : UploadSucceeded(t)

C33_WithoutFlagsWitness ==
    HashWritten /\ ~before.CloudflareUploaded /\ ~before.AWSUploaded

\* A hash that is written is the hash of the bytes the pass read.
C33_HashOfBytesRead ==
    HashWritten => after.LastUploadedCertHash = calculateCertHash(tls.crt)

(***************************************************************************)
(* Specification SpecConverge: CertificateManager under fair scheduling.   *)
(* The passes meet no failure of the object store, the issuer renews the   *)
(* key material at will, the cloud targets fail and recover at will, and a *)
(* pass is not postponed forever.                                          *)
(***************************************************************************)
\* The Specs of the resource: Cloudflare configured, AWS configured or not.
ConvergeSpecs ==
    {CertificateSpec("cloudflare-credentials", "zone-1", Nil, aws, "", Nil) :
        aws \in {Nil, Ptr(AWSConfig("aws-credentials"))}}

FilledSlots == {Slot(c, KeyBytes) : c \in Certs}

InitConverge ==
    /\ orchestration = "manager"
    /\ cert \in {Certificate(spec) : spec \in ConvergeSpecs}
    /\ EnvInit

FairProcess == \E now \in Clock(cert.Status) : ProcessCertificate("none", now, "ready")

Renew == \E slot \in FilledSlots : WriteSlot(slot)

Flap == \E t \in Targets : \E p \in {"ok", "down"} : ProviderChange(t, p)

NextConverge == FairProcess \/ Renew \/ Flap

SpecConverge == InitConverge /\ [][NextConverge]_vars /\ WF_vars(FairProcess)

(***************************************************************************)
(* C34: convergence                                                        *)
(***************************************************************************)
\* From now on the key material is slot and every Upload that is attempted
\* succeeds.
Settled(slot) == tls = slot /\ \A t \in Targets : provider[t] = "ok"

\* Every enabled, configured target has its Uploaded flag set and the
\* recorded hash is that of the bytes of slot.
Converged(slot) ==
    /\ \A t \in Wanted(cert.Spec) : UploadedFlag(cert.Status, t)
    /\ cert.Status.LastUploadedCertHash = calculateCertHash(slot.crt)

\* C34: under fair scheduling of the passes, if from some point on the key
\* material stays fixed and every attempted Upload succeeds, then eventually
\* every enabled, configured target has Uploaded = true and
\* Status.LastUploadedCertHash is the hash of the bytes, whatever uploads
\* failed before (the flag of a target is to stem from a successful upload
\* of these bytes: that it is set at all is the least of it).
C34_Convergence ==
    \A slot \in FilledSlots : <>[]Settled(slot) => <>Converged(slot)

(***************************************************************************)
(* Specification SpecRecords: either orchestration, with the certificate   *)
(* records on the cloud targets followed                                   *)
(***************************************************************************)
InitRecords ==
    /\ \/ /\ orchestration = "manager"
          /\ cert \in {Certificate(spec) : spec \in ConvergeSpecs}
       \/ /\ orchestration = "controller"
          /\ cert \in {Certificate(spec) : spec \in TeardownSpecs}
    /\ tls = NoSlot
    /\ provider = [t \in Targets |-> "ok"]
    /\ calls = <<>>
    /\ result = NoResult
    /\ before = ZeroStatus
    /\ after = ZeroStatus
    /\ streak = "none"
    /\ succeeded = {}
    /\ issuers = NoIssuers
    /\ records = NoRecords
    /\ server = NoServer

NextRecords == Process \/ Finalize \/ Pass \/ Issue \/ Outage \/ DeleteResource

SpecRecords == InitRecords /\ [][NextRecords]_vars

(***************************************************************************)
(* C35: no orphaned cloud records                                          *)
(***************************************************************************)
\* The records on target t whose identifier the Status of the resource does
\* not hold.
Orphans(t) == {id \in records.on[t] : id # Identifier(cert.Status, t)}

\* C35: while the resource exists, every certificate record a pass created
\* on a target and no pass has successfully deleted has its identifier in
\* the persisted Status of the resource (so that teardown attempts to
\* delete it), whatever failed in the passes before.
C35_NoOrphanedRecords ==
    cert.present => \A t \in Targets : Orphans(t) = {}

\* What holds: a pass whose Status is persisted and in which no delete of an
\* old Cloudflare record fails leaves no orphan behind when it found none.
C35_OrphansOnlyByFailure ==
    [][(/\ cert.present /\ cert'.present
        /\ \A t \in Targets : Orphans(t) = {}
        /\ \E t \in Targets : Orphans(t)' # {})
       => \/ \E i \in 1..Len(calls') :
                calls'[i].op = "StatusUpdate" /\ ~calls'[i].ok
          \/ \E i \in 1..Len(calls') :
                calls'[i].op = "DeleteSSL" /\ ~calls'[i].ok]_vars

\* An old Cloudflare record left behind by a renewal under CertificateManager.
C35_RenewalOrphan ==
    /\ orchestration = "manager" /\ cert.present
    /\ Orphans("cloudflare") # {}
    /\ cert.Status.CloudflareCertificateID \in records.on["cloudflare"]

(***************************************************************************)
(* C36: Finalize completes for every Spec and Status                       *)
(***************************************************************************)
\* C36: a call of CertificateManager.Finalize returns, and returns nil,
\* whatever Spec and Status hold, also when Status.AWSCertificateARN is set
\* while Spec has no AWS configuration; it attempts the Cloudflare delete
\* whenever a Cloudflare identifier is recorded.
C36_FinalizeCompletes ==
    result.op = "Finalize" =>
        /\ ~result.panicked
        /\ ~result.err
        /\ cert.Status.CloudflareCertificateID # "" =>
               CallsOf(calls, "Delete", "cloudflare") # {}

\* What holds: Finalize completes and returns nil whenever the AWS
\* configuration is present or no ARN is recorded.
C36_CompletesWithAWS ==
    (result.op = "Finalize"
        /\ (cert.Spec.AWS # Nil \/ cert.Status.AWSCertificateARN = "")) =>
        /\ ~result.panicked
        /\ ~result.err
        /\ cert.Status.CloudflareCertificateID # "" =>
               CallsOf(calls, "Delete", "cloudflare") # {}

C36_WithAWSWitness ==
    /\ result.op = "Finalize"
    /\ cert.Spec.AWS # Nil /\ cert.Status.AWSCertificateARN # ""
    /\ cert.Status.CloudflareCertificateID # ""
    /\ \E i \in CallsOf(calls, "Delete", "aws") : ~calls[i].ok

(***************************************************************************)
(* C37: Reconcile uploads to a target once                                 *)
(***************************************************************************)
\* The step is a pass of Reconcile that calls Upload on target t.
ReconcileUploads(t) ==
    /\ result'.op = "Reconcile"
    /\ \E i \in 1..Len(calls') : calls'[i].op = "Upload" /\ calls'[i].target = t

\* C37: a pass of Reconcile calls Upload on a target only when the target's
\* Uploaded flag in Status is false at the start of the pass, and once an
\* Upload to a target has succeeded no later pass calls Upload on that
\* target, whatever bytes the TLS secret then holds.
C37_UploadedOnce ==
    [][\A t \in Targets :
          ReconcileUploads(t) =>
              ~UploadedFlag(cert.Status, t) /\ t \notin succeeded]_vars

\* What holds: Upload is called only while the flag in the Status read at
\* the start of the pass is false, a flag that is set stays set, and so no
\* pass uploads to a target after a pass that wrote its flag.
C37_FlagGated ==
    [][\A t \in Targets :
          /\ ReconcileUploads(t) => ~UploadedFlag(cert.Status, t)
          /\ (result'.op = "Reconcile" /\ UploadedFlag(cert.Status, t))
                => UploadedFlag(cert'.Status, t)]_vars

\* A pass with a flag set while the TLS secret holds other bytes than those
\* uploaded: it uploads nothing.
C37_FlagGatedWitness ==
    /\ result.op = "Reconcile"
    /\ cert.Status.CloudflareUploaded /\ before.CloudflareUploaded
    /\ tls.found /\ tls.crt = <<2>>
    /\ cert.Status.LastUploadedCertHash = ""
    /\ Uploads = {}
    /\ \E i \in 1..Len(calls) : calls[i].op = "GetSecret" /\ calls[i].ok

(***************************************************************************)
(* Specification SpecServer: StartAPIServer, the HTTP server of the REST   *)
(* API run in an errgroup of two goroutines: one in ListenAndServe, one    *)
(* waiting for the group's context and then in Shutdown                    *)
(***************************************************************************)
MaxConns == 4       \* connections open at one time

\* StartAPIServer after both g.Go calls: the first goroutine is about to
\* call ListenAndServe, the second waits on gCtx.Done().
StartAPIServer ==
    [NoServer EXCEPT !.listen = "start", !.shutdown = "waiting"]

\* A goroutine of the errgroup returns e ("" for nil): the group keeps the
\* first error that is not nil and cancels gCtx with it.
Go(s, e) ==
    IF e = "" THEN s
    ELSE [s EXCEPT !.err = IF s.err = "" THEN e ELSE s.err, !.gCtx = "done"]

ServerStep(s) ==
    /\ server' = s
    /\ UNCHANGED <<cert, tls, provider, calls, result, before, after, streak,
                   succeeded, orchestration, issuers, records>>

\* srv.ListenAndServe up to the accept loop: ErrServerClosed, which the
\* goroutine turns into nil, when Shutdown was called first; the error of
\* net.Listen when the address cannot be bound; else the listener is open.
ListenAndServe(bound) ==
    /\ server.listen = "start"
    /\ ServerStep(IF server.inShutdown
                    THEN Go([server EXCEPT !.listen = "returned"], "")
                  ELSE IF bound
                    THEN [server EXCEPT !.listen = "serving"]
                  ELSE Go([server EXCEPT !.listen = "returned"], "listen"))

\* The accept loop takes a connection and a request is served on it.
Accept ==
    /\ server.listen = "serving"
    /\ ~server.inShutdown
    /\ server.conns + server.idle < MaxConns
    /\ ServerStep([server EXCEPT !.conns = @ + 1])

\* The request on a connection is answered, within WriteTimeout: the
\* connection is kept alive when the client asks for it and the server is not
\* shutting down, and closes otherwise.
Respond(keepAlive) ==
    /\ server.conns > 0
    /\ ServerStep([server EXCEPT
           !.conns = @ - 1,
           !.idle = IF keepAlive /\ ~server.inShutdown THEN @ + 1 ELSE @])

\* A further request arrives on a connection that was kept alive.
Request ==
    /\ server.idle > 0
    /\ ServerStep([server EXCEPT !.idle = @ - 1, !.conns = @ + 1])

\* A connection that was kept alive closes: IdleTimeout passed, or the
\* client closed it.
IdleClose ==
    /\ server.idle > 0
    /\ ServerStep([server EXCEPT !.idle = @ - 1])

\* Accept fails for good while the server is not shutting down:
\* ListenAndServe returns the error and so does the goroutine.
AcceptError ==
    /\ server.listen = "serving"
    /\ ~server.inShutdown
    /\ ServerStep(Go([server EXCEPT !.listen = "returned"], "listen"))

\* Shutdown has closed the listener: ListenAndServe returns ErrServerClosed
\* and the goroutine returns nil.
ServeClosed ==
    /\ server.listen = "serving"
    /\ server.inShutdown
    /\ ServerStep(Go([server EXCEPT !.listen = "returned"], ""))

\* The caller cancels ctx, and gCtx, derived from it, is done.
Cancel ==
    /\ server.ctx = "live"
    /\ server.returned = "running"
    /\ ServerStep([server EXCEPT !.ctx = "done", !.gCtx = "done"])

\* The second goroutine, past <-gCtx.Done(), calls srv.Shutdown with five
\* seconds to go: the server is marked as shutting down, its listener is
\* closed and so are its idle connections.
Shutdown ==
    /\ server.shutdown = "waiting"
    /\ server.gCtx = "done"
    /\ ServerStep([server EXCEPT !.shutdown = "running", !.inShutdown = TRUE,
                                 !.idle = 0])

\* srv.Shutdown returns: nil once no connection is active, the error of its
\* context when the five seconds run out with a connection still active.
\* Active connections are left as they are in both cases.
ShutdownReturns ==
    /\ server.shutdown = "running"
    /\ ServerStep(IF server.conns = 0
                    THEN Go([server EXCEPT !.shutdown = "returned"], "")
                    ELSE Go([server EXCEPT !.shutdown = "returned"], "shutdown"))

\* g.Wait: both goroutines have returned; gCtx is cancelled and the first
\* error of the group, or nil, is what StartAPIServer returns.
Wait ==
    /\ server.listen = "returned"
    /\ server.shutdown = "returned"
    /\ server.returned = "running"
    /\ ServerStep([server EXCEPT !.gCtx = "done",
                                 !.returned = IF server.err = "" THEN "nil"
                                              ELSE server.err])

InitServer ==
    /\ orchestration = "server"
    /\ cert = NoCertificate
    /\ tls = NoSlot
    /\ provider = [t \in Targets |-> "ok"]
    /\ calls = <<>>
    /\ result = NoResult
    /\ before = ZeroStatus
    /\ after = ZeroStatus
    /\ streak = "none"
    /\ succeeded = {}
    /\ issuers = NoIssuers
    /\ records = Untracked
    /\ server = StartAPIServer

Listen == \E bound \in BOOLEAN : ListenAndServe(bound)

Answer == \E keepAlive \in BOOLEAN : Respond(keepAlive)

\* The steps of the two goroutines and of g.Wait, which the scheduler takes
\* in the end.
Goroutines == Listen \/ ServeClosed \/ Shutdown \/ ShutdownReturns \/ Wait

NextServer ==
    Listen \/ Accept \/ Answer \/ Request \/ IdleClose \/ AcceptError
        \/ ServeClosed \/ Cancel \/ Shutdown \/ ShutdownReturns \/ Wait

SpecServer == InitServer /\ [][NextServer]_vars /\ WF_vars(Goroutines)

(***************************************************************************)
(* C38: StartAPIServer terminates                                          *)
(***************************************************************************)
\* StartAPIServer has returned.
Returned == server.returned # "running"

\* The server is still serving: ListenAndServe has not returned, or a
\* request is being served on a connection.
Serving == server.listen = "serving" \/ server.conns > 0

\* The value StartAPIServer is to return: the listen error when listening
\* failed, nil after a shutdown that cancellation triggered and that ended
\* with no error.
ReturnsAsStated ==
    /\ server.err = "listen" => server.returned = "listen"
    /\ (server.ctx = "done" /\ server.err = "") => server.returned = "nil"

\* C38: once its context is cancelled, or once ListenAndServe has returned an
\* error, Shutdown is invoked and StartAPIServer returns, with the listen
\* error when listening failed and with nil after a clean shutdown that
\* cancellation triggered; and it never returns while the server is still
\* serving.
C38_StartAPIServerTerminates ==
    /\ (server.gCtx = "done") ~> (server.shutdown # "waiting" /\ Returned)
    /\ [](Returned => ReturnsAsStated)
    /\ [](Returned => ~Serving)

\* What holds of C38: StartAPIServer returns once gCtx is done, after
\* Shutdown was invoked, with the values stated.
C38_Terminates ==
    /\ (server.gCtx = "done") ~> (server.shutdown # "waiting" /\ Returned)
    /\ [](Returned => ReturnsAsStated)

\* What holds of C38: StartAPIServer returns only after ListenAndServe and
\* Shutdown have both returned, so with the listener closed and no idle
\* connection left.
C38_GoroutinesReturned ==
    Returned =>
        /\ server.listen = "returned"
        /\ server.shutdown = "returned"
        /\ server.inShutdown
        /\ server.idle = 0

\* What holds of C38: a request is still being served when StartAPIServer
\* returns only if Shutdown ran out of its five seconds, and StartAPIServer
\* then returns an error.
C38_ServingOnlyAfterTimeout ==
    (Returned /\ Serving) => server.returned \in {"listen", "shutdown"}

\* StartAPIServer has returned the error of a Shutdown that ran out of time
\* and a request is still being served.
C38_ReturnedWhileServing ==
    server.returned = "shutdown" /\ server.conns > 0

\* StartAPIServer has returned nil after a cancellation, and has returned
\* the listen error, both with nothing being served.
C38_CleanReturn == server.returned = "nil" /\ server.ctx = "done" /\ ~Serving

C38_ListenErrorReturn == server.returned = "listen" /\ ~Serving

====
